---- MODULE Spec2Model ----
(***************************************************************************)
(* A model of the langgraph-agents repository:                             *)
(*                                                                         *)
(*   - the summarization graph of core/agents/summarization.py             *)
(*     (router, chunk, three strategy executors, direct summarize,         *)
(*     reflect, revise), under the specification Spec, with its            *)
(*     hierarchical executor (HierSpec), its chunker (ChunkSpec) and its   *)
(*     token estimate (MetaSpec) on their own;                             *)
(*   - the two-node tool loop of core/agents/base.py (call_model,          *)
(*     take_action), under the specification AgentSpec;                    *)
(*   - the regex tools of core/tools/regex.py (FileSpec, ExtractSpec,      *)
(*     SearchSpec) and the document tools of core/tools/document_io.py     *)
(*     (DocSpec);                                                          *)
(*   - the supervisor and worker nodes of the team graphs (TeamSpec).      *)
(*                                                                         *)
(* A text is a sequence of atoms (strings): single characters where the    *)
(* code looks at characters (strip, upper), whole words elsewhere.  The    *)
(* original document is kept by its length and blankness only, since the   *)
(* graph looks at nothing else of it.  A model call is an outcome drawn    *)
(* from a small set: a reply with a content, or an exception.              *)
(***************************************************************************)
EXTENDS Integers, Sequences, FiniteSets, TLC

VARIABLES
    pc,         \* summarization: the node the graph runs next
    state,      \* summarization: the SummarizationState, a dict of the keys set so far
    trace,      \* summarization: the nodes run so far, with the model calls each made
    result,     \* summarization: what invoke returned (a sequence of 0 or 1 texts)
    apc,        \* agent: the node the graph runs next
    agent,      \* agent: what __init__ stored (system, tools)
    messages,   \* agent: AgentState["messages"]
    history,    \* agent: every message of the run so far, in the order produced
    model_input,\* agent: the argument of the latest model.invoke
    invoked,    \* agent: the tool invocations made so far (name, args)
    turns,      \* agent: the number of call_model executions so far
    disk,       \* tools: the file system, a dict from path to entry
    last_call,  \* tools: the latest call of a tool or function, its arguments and what it returned
    ncalls,     \* tools: the number of calls made so far
    tpc,        \* team: the node the team graph runs next
    team,       \* team: the graph's State (messages, next)
    members,    \* team: the worker names the supervisor was made with
    command,    \* team: the Command the supervisor node returned last, and the reply it read
    rounds,     \* team: the number of supervisor executions so far
    subagent    \* team: what the sub-agent of the latest worker node returned

vars == <<pc, state, trace, result, apc, agent, messages, history, model_input, invoked, turns,
          disk, last_call, ncalls, tpc, team, members, command, rounds, subagent>>

sumVars == <<pc, state, trace, result>>
agentVars == <<apc, agent, messages, history, model_input, invoked, turns>>
toolVars == <<disk, last_call, ncalls>>
teamVars == <<tpc, team, members, command, rounds, subagent>>

----------------------------------------------------------------------------
(* Bounds of the model *)

\* document lengths are taken within LenSlack characters of each threshold
LenSlack == 1
\* the splitter returns between 1 and MaxChunks chunks for a non-blank text
MaxChunks == 2
\* call_model runs at most MaxTurns times in a modelled agent run
MaxTurns == 2
\* a model reply requests at most MaxToolCalls tool calls
MaxToolCalls == 2
\* the hierarchical executor is run on 1 to MaxLeaves chunks
MaxLeaves == 26
\* a file holds at most MaxFileLen characters when the tools start
MaxFileLen == 2
\* a text given to extract_pattern_matches has at most MaxTextLen words
MaxTextLen == 3
\* at most MaxToolRuns calls of replace_pattern_in_file are made
MaxToolRuns == 2
\* the supervisor node runs at most MaxRounds times in a modelled team run
MaxRounds == 3
\* a document holds at most MaxDocLen characters when the document tools start
MaxDocLen == 3
\* a call of edit_document gives at most MaxInserts inserts
MaxInserts == 2
\* the line numbers given to edit_document go from 0 to MaxLine
MaxLine == 5
\* count_tokens and get_doc_metadata are called on texts of 0 to MaxMetaLen characters
MaxMetaLen == 64
\* a searched directory holds at most MaxDirFiles files
MaxDirFiles == 2
\* search_files_by_pattern is called with max_results from 0 to MaxResults
MaxResults == 2
\* the small custom chunk sizes and overlaps go up to MaxCustom
MaxCustom == 6

----------------------------------------------------------------------------
(* Program constants *)

TOKEN_THRESHOLD_MASSIVE == 50000
TOKEN_THRESHOLD_LONG == 2000
MAX_REVISION_COUNT == 2
CHARS_PER_TOKEN == 4
GROUP_SIZE == 5

Strategies == {"MAP_REDUCE", "REFINE", "HIERARCHICAL"}

----------------------------------------------------------------------------
(* Texts *)

Whitespace == {" ", "\n", "\t"}

\* str.upper on one character
UpperChar(c) ==
    CASE c = "a" -> "A"
      [] c = "p" -> "P"
      [] c = "r" -> "R"
      [] c = "o" -> "O"
      [] c = "v" -> "V"
      [] c = "e" -> "E"
      [] c = "d" -> "D"
      [] OTHER -> c

\* str.upper
Upper(s) == [i \in DOMAIN s |-> UpperChar(s[i])]

RECURSIVE LStrip(_)
LStrip(s) == IF s # <<>> /\ Head(s) \in Whitespace THEN LStrip(Tail(s)) ELSE s

RECURSIVE RStrip(_)
RStrip(s) ==
    IF s # <<>> /\ s[Len(s)] \in Whitespace THEN RStrip(SubSeq(s, 1, Len(s) - 1)) ELSE s

\* str.strip
Strip(s) == RStrip(LStrip(s))

\* sep.join(parts): the parts' atoms with the separator between consecutive parts
RECURSIVE Join(_, _)
Join(sep, parts) ==
    IF parts = <<>> THEN <<>>
    ELSE IF Len(parts) = 1 THEN parts[1]
    ELSE parts[1] \o <<sep>> \o Join(sep, Tail(parts))

\* the first index of atom a in s, 0 when absent (str.find)
RECURSIVE Find(_, _, _)
Find(s, a, from) ==
    IF from > Len(s) THEN 0
    ELSE IF s[from] = a THEN from
    ELSE Find(s, a, from + 1)

APPROVED == <<"A", "P", "P", "R", "O", "V", "E", "D">>

----------------------------------------------------------------------------
(* Dicts: a dict is a function whose domain is the set of keys present *)

\* dict.get(key, default)
Get(d, k, default) == IF k \in DOMAIN d THEN d[k] ELSE default

\* the graph merges a node's partial update into the state: each returned key
\* overwrites (no key of SummarizationState has a reducer)
Merge(d, upd) ==
    [k \in DOMAIN d \cup DOMAIN upd |-> IF k \in DOMAIN upd THEN upd[k] ELSE d[k]]

EmptyDict == [k \in {} |-> 0]

----------------------------------------------------------------------------
(* Model calls *)

Ok(content) == [ok |-> TRUE, content |-> content]
\* model.invoke raised; content is str(e)
Raised == [ok |-> FALSE, content |-> <<"provider down">>]

----------------------------------------------------------------------------
(* Documents and their metadata *)

DocLens ==
    (0 .. LenSlack)
    \cup ((TOKEN_THRESHOLD_LONG * CHARS_PER_TOKEN - LenSlack)
            .. (TOKEN_THRESHOLD_LONG * CHARS_PER_TOKEN + LenSlack))
    \cup ((TOKEN_THRESHOLD_MASSIVE * CHARS_PER_TOKEN - LenSlack)
            .. (TOKEN_THRESHOLD_MASSIVE * CHARS_PER_TOKEN + LenSlack))

\* a document: its length, whether text.strip() is empty, and its line and
\* paragraph counts (the modelled documents are one line, one paragraph)
Docs ==
    {[len |-> n, blank |-> b, lines |-> 1, paragraphs |-> IF b THEN 0 ELSE 1] :
        n \in DocLens, b \in BOOLEAN} \ {[len |-> 0, blank |-> FALSE, lines |-> 1, paragraphs |-> 1]}

\* mutant: the quotient is rounded up
count_tokens_rounded_up(text) ==
    (text.len + CHARS_PER_TOKEN - 1) \div CHARS_PER_TOKEN

\* int(len(text) / chars_per_token), 0 for the empty text
count_tokens(text) == IF text.len = 0 THEN 0 ELSE text.len \div CHARS_PER_TOKEN

get_doc_metadata(text) ==
    IF text.len = 0
    THEN [char_count |-> 0, estimated_tokens |-> 0, line_count |-> 0, paragraph_count |-> 0]
    ELSE [char_count |-> text.len, estimated_tokens |-> count_tokens(text),
          line_count |-> text.lines, paragraph_count |-> text.paragraphs]

----------------------------------------------------------------------------
(* The router *)

\* the JSON texts the router's model may answer with, and what json.loads
\* makes of each; "{not json}" is brace-delimited text that is not JSON
JsonObjects ==
    [a \in {"{refine}", "{map_reduce}", "{hier}", "{other}", "{}"} |->
        CASE a = "{refine}" ->
                [content_type |-> "narrative", selected_strategy |-> "REFINE",
                 summary_focus |-> <<"Track character arc">>]
          [] a = "{map_reduce}" ->
                [content_type |-> "informational", selected_strategy |-> "MAP_REDUCE",
                 summary_focus |-> <<"Key facts">>]
          [] a = "{hier}" ->
                [content_type |-> "massive_dataset", selected_strategy |-> "HIERARCHICAL",
                 summary_focus |-> <<"Organize the records">>]
          [] a = "{other}" ->
                [content_type |-> "informational", selected_strategy |-> "EXTRACTIVE",
                 summary_focus |-> <<"Key facts">>]
          [] OTHER -> EmptyDict]

JsonArrays == {"[]"}
BraceTexts == DOMAIN JsonObjects \cup {"{not json}"}

\* json.loads: a value, or JSONDecodeError
json_loads(s) ==
    IF Len(s) = 1 /\ s[1] \in DOMAIN JsonObjects
    THEN [ok |-> TRUE, kind |-> "dict", val |-> JsonObjects[s[1]]]
    ELSE IF Len(s) = 1 /\ s[1] \in JsonArrays
    THEN [ok |-> TRUE, kind |-> "list", val |-> EmptyDict]
    ELSE [ok |-> FALSE, kind |-> "error", val |-> EmptyDict]

\* the markdown code fence (three backquotes), bare and with the json tag
FENCE == "<fence>"
FENCE_JSON == "<fence>json"

\* s.split(a)[1].split(FENCE)[0]: what follows the first a, up to the next fence
Fenced(s, a) ==
    LET rest == SubSeq(s, Find(s, a, 1) + 1, Len(s))
        bare == Find(rest, FENCE, 1)
        tagged == Find(rest, FENCE_JSON, 1)
        \* the tagged fence starts with the bare one, so it closes the block too
        close == IF bare = 0 THEN tagged
                 ELSE IF tagged = 0 THEN bare
                 ELSE IF bare < tagged THEN bare ELSE tagged
    IN  IF close = 0 THEN rest ELSE SubSeq(rest, 1, close - 1)

\* re.search for an object without nested braces: the first brace-delimited
\* atom of s, if any
RECURSIVE SearchBraces(_)
SearchBraces(s) ==
    IF s = <<>> THEN <<>>
    ELSE IF Head(s) \in BraceTexts THEN <<Head(s)>>
    ELSE SearchBraces(Tail(s))

parse_router_response(response) ==
    LET body == IF Find(response, FENCE_JSON, 1) # 0 THEN Fenced(response, FENCE_JSON)
                ELSE IF Find(response, FENCE, 1) # 0 THEN Fenced(response, FENCE)
                ELSE response
        first == json_loads(Strip(body))
        match == SearchBraces(body)
        second == json_loads(match)
    IN  IF first.ok THEN first
        ELSE IF match # <<>> /\ second.ok THEN second
        ELSE [ok |-> TRUE, kind |-> "dict", val |-> EmptyDict]

\* mutant: the short-document test reads the character count
IsShortByChars(metadata) == metadata.char_count < TOKEN_THRESHOLD_LONG

\* the router's test for a short document
IsShort(metadata) == metadata.estimated_tokens < TOKEN_THRESHOLD_LONG

\* mutant: the massive-document test is strict
IsMassiveStrict(metadata) == metadata.estimated_tokens > TOKEN_THRESHOLD_MASSIVE

\* the router's test for a massive document
IsMassive(metadata) == metadata.estimated_tokens >= TOKEN_THRESHOLD_MASSIVE

RouterUpdate(metadata, ctype, strategy, focus) ==
    [doc_metadata |-> metadata, content_type |-> ctype, selected_strategy |-> strategy,
     summary_focus |-> focus, revision_count |-> 0]

\* mutant: a reply without a strategy is planned as REFINE
RouterPlanRefineDefault(metadata, parsed) ==
    RouterUpdate(metadata,
        Get(parsed, "content_type", "informational"),
        Get(parsed, "selected_strategy", "REFINE"),
        Get(parsed, "summary_focus", <<"Summarize the key points.">>))

\* the plan read from the parsed reply, with the defaults of result.get
RouterPlan(metadata, parsed) ==
    RouterUpdate(metadata,
        Get(parsed, "content_type", "informational"),
        Get(parsed, "selected_strategy", "MAP_REDUCE"),
        Get(parsed, "summary_focus", <<"Summarize the key points.">>))

\* _router_node: the update it returns and the model calls it made; reply is
\* the outcome of the model call, read only when the call is made
router_node(st, reply) ==
    LET metadata == get_doc_metadata(st["original_text"])
        parsed == parse_router_response(reply.content)
        fallback == RouterUpdate(metadata, "informational", "MAP_REDUCE",
                                 <<"Extract main ideas and key points.">>)
    IN  IF IsShort(metadata)
        THEN [update |-> RouterUpdate(metadata, "informational", "MAP_REDUCE",
                                      <<"Capture all key points concisely.">>),
              calls |-> 0, failed |-> 0]
        ELSE IF IsMassive(metadata)
        THEN [update |-> RouterUpdate(metadata, "massive_dataset", "HIERARCHICAL",
                            <<"Extract and organize key information from this large document.">>),
              calls |-> 0, failed |-> 0]
        ELSE IF ~reply.ok
        THEN [update |-> fallback, calls |-> 1, failed |-> 1]
        ELSE IF parsed.kind # "dict"
        THEN [update |-> fallback, calls |-> 1, failed |-> 0]
        ELSE [update |-> RouterPlan(metadata, parsed.val), calls |-> 1, failed |-> 0]

route_after_router(st) ==
    LET metadata == Get(st, "doc_metadata", EmptyDict)
        tokens == Get(metadata, "estimated_tokens", 0)
    IN  IF tokens < TOKEN_THRESHOLD_LONG THEN "direct" ELSE "chunk"

\* mutant: the strategy is read under another key, so the default is returned
route_to_strategy_wrong_key(st) == Get(st, "strategy", "MAP_REDUCE")

route_to_strategy(st) == Get(st, "selected_strategy", "MAP_REDUCE")

\* mutant: the revision maximum is compared strictly
route_after_reflection_strict(st) ==
    LET critique == Upper(Strip(Get(st, "critique_feedback", <<>>)))
        revision_count == Get(st, "revision_count", 0)
    IN  IF critique = APPROVED \/ revision_count > MAX_REVISION_COUNT
        THEN "end" ELSE "revise"

\* mutant: the critique is compared as written, without upper()
route_after_reflection_case_sensitive(st) ==
    LET critique == Strip(Get(st, "critique_feedback", <<>>))
        revision_count == Get(st, "revision_count", 0)
    IN  IF critique = APPROVED \/ revision_count >= MAX_REVISION_COUNT
        THEN "end" ELSE "revise"

route_after_reflection(st) ==
    LET critique == Upper(Strip(Get(st, "critique_feedback", <<>>)))
        revision_count == Get(st, "revision_count", 0)
    IN  IF critique = APPROVED \/ revision_count >= MAX_REVISION_COUNT
        THEN "end" ELSE "revise"

\* a conditional edge: the node its path map names for the key the routing
\* function returned; a key outside the map raises in the graph runner
Branch(path_map, key) == IF key \in DOMAIN path_map THEN path_map[key] ELSE "ABORTED"

AfterRouter == [direct |-> "direct_summarize_node", chunk |-> "chunk_node"]
AfterChunk ==
    [MAP_REDUCE |-> "map_reduce_node", REFINE |-> "refine_node",
     HIERARCHICAL |-> "hierarchical_node"]
AfterReflect == [revise |-> "revise_node", end |-> "END"]

----------------------------------------------------------------------------
(* The chunker *)

CHUNK_CONFIG ==
    [MAP_REDUCE |-> [chunk_size |-> 1500, chunk_overlap |-> 100],
     REFINE |-> [chunk_size |-> 4000, chunk_overlap |-> 400],
     HIERARCHICAL |-> [chunk_size |-> 800, chunk_overlap |-> 50]]

\* mutant: only an overlap above the chunk size is replaced
ChunkParamsAllowsEqual(strategy, custom_chunk_size, custom_overlap) ==
    LET config == Get(CHUNK_CONFIG, strategy, CHUNK_CONFIG["MAP_REDUCE"])
        chunk_size == IF custom_chunk_size # 0 THEN custom_chunk_size ELSE config.chunk_size
        chunk_overlap == IF custom_overlap # 0 THEN custom_overlap ELSE config.chunk_overlap
    IN  [chunk_size |-> chunk_size,
         chunk_overlap |-> IF chunk_overlap > chunk_size THEN chunk_size \div 4
                           ELSE chunk_overlap]

\* the chunk size and overlap SmartChunker.chunk hands to the splitter; a
\* custom value of None is 0 here ("custom or default" reads both alike)
ChunkParams(strategy, custom_chunk_size, custom_overlap) ==
    LET config == Get(CHUNK_CONFIG, strategy, CHUNK_CONFIG["MAP_REDUCE"])
        chunk_size == IF custom_chunk_size # 0 THEN custom_chunk_size ELSE config.chunk_size
        chunk_overlap == IF custom_overlap # 0 THEN custom_overlap ELSE config.chunk_overlap
    IN  [chunk_size |-> chunk_size,
         chunk_overlap |-> IF chunk_overlap >= chunk_size THEN chunk_size \div 4
                           ELSE chunk_overlap]

\* SmartChunker.chunk: no chunk for a blank text; otherwise the n chunks the
\* splitter cuts (how many is the splitter's business: n is drawn by the caller)
chunk(text, strategy, n) ==
    IF text.len = 0 \/ text.blank THEN <<>>
    ELSE [i \in 1 .. n |-> <<"chunk ", ToString(i)>>]

chunk_node(st, n) ==
    LET strategy == Get(st, "selected_strategy", "MAP_REDUCE")
    IN  [update |-> [chunks |-> chunk(st["original_text"], strategy, n)],
         calls |-> 0, failed |-> 0]

----------------------------------------------------------------------------
(* The executors.  rs is the sequence of the outcomes of the node's model
   calls, in the order the node makes them. *)

CountFailed(rs) == Cardinality({i \in DOMAIN rs : ~rs[i].ok})

direct_summarize_node(st, reply) ==
    LET summary == IF reply.ok THEN reply.content
                   ELSE <<"Error during summarization: ">> \o reply.content
    IN  [update |-> [final_output |-> summary],
         calls |-> 1, failed |-> CountFailed(<<reply>>)]

\* mutant: a single chunk summary is taken as the draft, without a reduce call
map_reduce_node_skips_single_reduce(st, rs) ==
    LET chunks == Get(st, "chunks", <<>>)
        n == Len(chunks)
        chunk_summaries ==
            [i \in 1 .. n |->
                IF rs[i].ok THEN rs[i].content
                ELSE <<"[Chunk ", ToString(i), " failed: ">> \o rs[i].content \o <<"]">>]
        reduce == rs[n + 1]
        draft == IF n = 1 THEN chunk_summaries[1]
                 ELSE IF reduce.ok THEN reduce.content ELSE Join("\n\n", chunk_summaries)
        calls == IF n = 1 THEN 1 ELSE n + 1
    IN  [update |-> [chunk_summaries |-> chunk_summaries, draft_summary |-> draft],
         calls |-> calls, failed |-> CountFailed(SubSeq(rs, 1, calls))]

\* mutant: the map phase stops at the first chunk whose call fails
map_reduce_node_stops_at_failure(st, rs) ==
    LET chunks == Get(st, "chunks", <<>>)
        n == Len(chunks)
        done == IF \E i \in 1 .. n : ~rs[i].ok
                THEN CHOOSE i \in 1 .. n : ~rs[i].ok /\ \A j \in 1 .. i - 1 : rs[j].ok
                ELSE n
        chunk_summaries ==
            [i \in 1 .. done |->
                IF rs[i].ok THEN rs[i].content
                ELSE <<"[Chunk ", ToString(i), " failed: ">> \o rs[i].content \o <<"]">>]
        reduce == rs[n + 1]
        draft == IF reduce.ok THEN reduce.content ELSE Join("\n\n", chunk_summaries)
    IN  [update |-> [chunk_summaries |-> chunk_summaries, draft_summary |-> draft],
         calls |-> n + 1, failed |-> CountFailed(SubSeq(rs, 1, n + 1))]

map_reduce_node(st, rs) ==
    LET chunks == Get(st, "chunks", <<>>)
        n == Len(chunks)
        chunk_summaries ==
            [i \in 1 .. n |->
                IF rs[i].ok THEN rs[i].content
                ELSE <<"[Chunk ", ToString(i), " failed: ">> \o rs[i].content \o <<"]">>]
        reduce == rs[n + 1]
        draft == IF reduce.ok THEN reduce.content ELSE Join("\n\n", chunk_summaries)
    IN  [update |-> [chunk_summaries |-> chunk_summaries, draft_summary |-> draft],
         calls |-> n + 1, failed |-> CountFailed(SubSeq(rs, 1, n + 1))]

\* mutant: a failed call leaves the error placeholder at every chunk
RECURSIVE RefineFoldPlaceholderAlways(_, _, _, _)
RefineFoldPlaceholderAlways(n, rs, i, running_summary) ==
    IF i > n THEN running_summary
    ELSE RefineFoldPlaceholderAlways(n, rs, i + 1,
            IF rs[i].ok THEN rs[i].content
            ELSE <<"[Initial chunk failed: ">> \o rs[i].content \o <<"]">>)

\* the running summary after chunks i .. n, given the one before chunk i
RECURSIVE RefineFold(_, _, _, _)
RefineFold(n, rs, i, running_summary) ==
    IF i > n THEN running_summary
    ELSE RefineFold(n, rs, i + 1,
            IF rs[i].ok THEN rs[i].content
            ELSE IF i = 1 THEN <<"[Initial chunk failed: ">> \o rs[i].content \o <<"]">>
            ELSE running_summary)

\* the prompt of the call for chunk i: the initial template for the first
\* chunk, the update template with the running summary of that moment after
RefinePrompt(chunks, rs, i) ==
    IF i = 1
    THEN [template |-> "REFINE_INITIAL_PROMPT", running_summary |-> <<>>, chunk |-> chunks[i]]
    ELSE [template |-> "REFINE_UPDATE_PROMPT",
          running_summary |-> RefineFold(i - 1, rs, 1, <<>>), chunk |-> chunks[i]]

refine_node(st, rs) ==
    LET chunks == Get(st, "chunks", <<>>)
        n == Len(chunks)
        running_summary == RefineFold(n, rs, 1, <<>>)
    IN  [update |-> [running_summary |-> running_summary, draft_summary |-> running_summary],
         calls |-> n, failed |-> CountFailed(SubSeq(rs, 1, n)),
         prompts |-> [i \in 1 .. n |-> RefinePrompt(chunks, rs, i)]]

\* mutant: the batch count is rounded down, a last short batch is left out
BatchesRoundedDown(n) == n \div GROUP_SIZE

\* the number of batches a layer of n summaries is merged in
Batches(n) == (n + GROUP_SIZE - 1) \div GROUP_SIZE

\* the merge loop: rs are the outcomes of the merge calls still to make
RECURSIVE MergeLoop(_, _, _, _)
MergeLoop(current_level, all_summaries, rs, calls) ==
    IF Len(current_level) <= 1
    THEN [level |-> current_level, all |-> all_summaries, calls |-> calls]
    ELSE LET nb == Batches(Len(current_level))
             Group(b) ==
                 SubSeq(current_level, GROUP_SIZE * (b - 1) + 1,
                        IF GROUP_SIZE * b < Len(current_level) THEN GROUP_SIZE * b
                        ELSE Len(current_level))
             next_level ==
                 [b \in 1 .. nb |-> IF rs[b].ok THEN rs[b].content ELSE Join(" ", Group(b))]
         IN  MergeLoop(next_level, all_summaries \o next_level,
                       SubSeq(rs, nb + 1, Len(rs)), calls + nb)

\* the number of merge calls the loop makes from a layer of n summaries
RECURSIVE MergeCalls(_)
MergeCalls(n) == IF n <= 1 THEN 0 ELSE Batches(n) + MergeCalls(Batches(n))

hierarchical_node(st, rs) ==
    LET chunks == Get(st, "chunks", <<>>)
        n == Len(chunks)
        leaves ==
            [i \in 1 .. n |->
                IF rs[i].ok THEN rs[i].content ELSE <<"[Leaf ", ToString(i), " summary]">>]
        merged == MergeLoop(leaves, leaves, SubSeq(rs, n + 1, Len(rs)), 0)
        draft == IF merged.level # <<>> THEN merged.level[1] ELSE <<"No summary generated.">>
    IN  [update |-> [chunk_summaries |-> merged.all, draft_summary |-> draft],
         calls |-> n + merged.calls, failed |-> CountFailed(SubSeq(rs, 1, n + merged.calls))]

----------------------------------------------------------------------------
(* Reflect and revise *)

\* mutant: a failed call is taken as a critique
reflect_node_failure_is_critique(st, reply) ==
    LET draft == Get(st, "draft_summary", <<>>)
        critique == IF reply.ok THEN Strip(reply.content) ELSE reply.content
        approved == [critique_feedback |-> critique, final_output |-> draft]
        critiqued == [critique_feedback |-> critique]
    IN  [update |-> IF Upper(critique) = APPROVED THEN approved ELSE critiqued,
         calls |-> 1, failed |-> CountFailed(<<reply>>)]

reflect_node(st, reply) ==
    LET draft == Get(st, "draft_summary", <<>>)
        critique == IF reply.ok THEN Strip(reply.content) ELSE APPROVED
        approved == [critique_feedback |-> critique, final_output |-> draft]
        critiqued == [critique_feedback |-> critique]
    IN  [update |-> IF Upper(critique) = APPROVED THEN approved ELSE critiqued,
         calls |-> 1, failed |-> CountFailed(<<reply>>)]

\* mutant: a failed call leaves an empty revised text
revise_node_blank_on_failure(st, reply) ==
    LET revision_count == Get(st, "revision_count", 0) + 1
        revised == IF reply.ok THEN reply.content ELSE <<>>
    IN  [update |-> [draft_summary |-> revised, revision_count |-> revision_count,
                     final_output |-> revised],
         calls |-> 1, failed |-> CountFailed(<<reply>>)]

\* mutant: final_output gets the draft as it was before the revision
revise_node_outputs_old_draft(st, reply) ==
    LET revision_count == Get(st, "revision_count", 0) + 1
        draft == Get(st, "draft_summary", <<>>)
        revised == IF reply.ok THEN reply.content ELSE draft
    IN  [update |-> [draft_summary |-> revised, revision_count |-> revision_count,
                     final_output |-> draft],
         calls |-> 1, failed |-> CountFailed(<<reply>>)]

\* mutant: the revised draft is not copied to final_output
revise_node_without_final_output(st, reply) ==
    LET revision_count == Get(st, "revision_count", 0) + 1
        draft == Get(st, "draft_summary", <<>>)
        revised == IF reply.ok THEN reply.content ELSE draft
    IN  [update |-> [draft_summary |-> revised, revision_count |-> revision_count],
         calls |-> 1, failed |-> CountFailed(<<reply>>)]

revise_node(st, reply) ==
    LET revision_count == Get(st, "revision_count", 0) + 1
        draft == Get(st, "draft_summary", <<>>)
        revised == IF reply.ok THEN reply.content ELSE draft
    IN  [update |-> [draft_summary |-> revised, revision_count |-> revision_count,
                     final_output |-> revised],
         calls |-> 1, failed |-> CountFailed(<<reply>>)]

----------------------------------------------------------------------------
(* What the model may answer *)

RouterReplies ==
    {Ok(<<"{refine}">>),
     Ok(<<"\n", "{map_reduce}", "\n">>),
     Ok(<<"Here is the plan:", "\n", FENCE_JSON, "\n", "{hier}", "\n", FENCE>>),
     Ok(<<FENCE, "{refine}", FENCE>>),
     Ok(<<"I suggest", " ", "{map_reduce}", " ", "as the plan.">>),
     Ok(<<"This is not valid JSON at all!">>),
     Ok(<<"{not json}">>),
     Ok(<<"{}">>),
     Ok(<<"[]">>),
     Ok(<<"{other}">>),
     Raised}

SummaryReplies == {Ok(<<"summary A">>), Ok(<<"summary B">>), Raised}

ReflectReplies ==
    {Ok(APPROVED),
     Ok(<<" ", "a", "p", "p", "r", "o", "v", "e", "d", "\n">>),
     Ok(APPROVED \o <<",", " ", "but tighten the ending.">>),
     Ok(<<"Missing key details about the topic.">>),
     Raised}

ReviseReplies == {Ok(<<"revision A">>), Ok(<<"revision B">>), Raised}

----------------------------------------------------------------------------
(* The summarization graph *)

\* the log entry of a node that returned out after the model calls rs
Logged(node, out, rs) ==
    [node |-> node, calls |-> out.calls, failed |-> out.failed,
     replies |-> SubSeq(rs, 1, out.calls),
     prompts |-> IF "prompts" \in DOMAIN out THEN out.prompts ELSE <<>>]

\* the graph runner after a node returned: merge the update, log the node
\* (with the outcomes of the model calls it made, and their prompts where the
\* node reports them), follow the edge
Ran(node, out, rs, next) ==
    /\ state' = Merge(state, out.update)
    /\ trace' = Append(trace, Logged(node, out, rs))
    /\ pc' = next
    /\ UNCHANGED <<result, agentVars, toolVars, teamVars>>

\* SummarizationAgent.invoke up to the start of the graph
Invoke ==
    /\ pc = "idle"
    /\ \E text \in Docs :
        IF text.len = 0 \/ text.blank
        THEN /\ result' = <<(<<"Error: Empty text provided for summarization.">>)>>
             /\ pc' = "RETURNED"
             /\ UNCHANGED <<state, trace, agentVars, toolVars, teamVars>>
        ELSE /\ state' = [original_text |-> text]
             /\ pc' = "router_node"
             /\ UNCHANGED <<trace, result, agentVars, toolVars, teamVars>>

RouterNode ==
    /\ pc = "router_node"
    /\ \E reply \in RouterReplies :
        LET out == router_node(state, reply)
        IN  Ran("router_node", out, <<reply>>,
                Branch(AfterRouter, route_after_router(Merge(state, out.update))))

DirectSummarizeNode ==
    /\ pc = "direct_summarize_node"
    /\ \E reply \in SummaryReplies :
        Ran("direct_summarize_node", direct_summarize_node(state, reply), <<reply>>, "END")

ChunkNode ==
    /\ pc = "chunk_node"
    /\ \E n \in 1 .. MaxChunks :
        LET out == chunk_node(state, n)
        IN  Ran("chunk_node", out, <<>>,
                Branch(AfterChunk, route_to_strategy(Merge(state, out.update))))

MapReduceNode ==
    /\ pc = "map_reduce_node"
    /\ \E rs \in [1 .. Len(state["chunks"]) + 1 -> SummaryReplies] :
        Ran("map_reduce_node", map_reduce_node(state, rs), rs, "reflect_node")

RefineNode ==
    /\ pc = "refine_node"
    /\ \E rs \in [1 .. Len(state["chunks"]) -> SummaryReplies] :
        Ran("refine_node", refine_node(state, rs), rs, "reflect_node")

HierarchicalNode ==
    /\ pc = "hierarchical_node"
    /\ LET n == Len(state["chunks"])
       IN  \E rs \in [1 .. n + MergeCalls(n) -> SummaryReplies] :
            Ran("hierarchical_node", hierarchical_node(state, rs), rs, "reflect_node")

ReflectNode ==
    /\ pc = "reflect_node"
    /\ \E reply \in ReflectReplies :
        LET out == reflect_node(state, reply)
        IN  Ran("reflect_node", out, <<reply>>,
                Branch(AfterReflect, route_after_reflection(Merge(state, out.update))))

ReviseNode ==
    /\ pc = "revise_node"
    /\ \E reply \in ReviseReplies :
        Ran("revise_node", revise_node(state, reply), <<reply>>, "reflect_node")

\* SummarizationAgent.invoke once the graph reached END
Return ==
    /\ pc = "END"
    /\ result' = <<Get(state, "final_output", <<"Error: No summary generated.">>)>>
    /\ pc' = "RETURNED"
    /\ UNCHANGED <<state, trace, agentVars, toolVars, teamVars>>

SumNext ==
    \/ Invoke
    \/ RouterNode
    \/ DirectSummarizeNode
    \/ ChunkNode
    \/ MapReduceNode
    \/ RefineNode
    \/ HierarchicalNode
    \/ ReflectNode
    \/ ReviseNode
    \/ Return

----------------------------------------------------------------------------
(* The hierarchical executor on its own, on documents of many chunks *)

\* a document the router's model is asked about, planned as HIERARCHICAL
HierDoc ==
    [len |-> TOKEN_THRESHOLD_LONG * CHARS_PER_TOKEN, blank |-> FALSE,
     lines |-> 1, paragraphs |-> 1]

\* the state and the log of a run on HierDoc after the router and the chunk
\* node, the splitter having cut n chunks
AfterChunking(n) ==
    LET st0 == [original_text |-> HierDoc]
        reply == Ok(<<"{hier}">>)
        routed == router_node(st0, reply)
        st1 == Merge(st0, routed.update)
        chunked == chunk_node(st1, n)
    IN  [state |-> Merge(st1, chunked.update),
         trace |-> <<Logged("router_node", routed, <<reply>>),
                     Logged("chunk_node", chunked, <<>>)>>]

\* the outcomes of a run of total model calls: call i fails when i is in
\* failing, and answers with a text of its own otherwise
Outcomes(total, failing) ==
    [i \in 1 .. total |-> IF i \in failing THEN Raised ELSE Ok(<<"summary ", ToString(i)>>)]

\* the failure patterns tried: no call fails, all fail, one fails, every
\* merge call fails
FailurePatterns(n, total) ==
    {{}, 1 .. total, (n + 1) .. total} \cup {{k} : k \in 1 .. total}

HierarchicalNodeOnManyChunks ==
    /\ pc = "hierarchical_node"
    /\ LET n == Len(state["chunks"])
           total == n + MergeCalls(n)
       IN  \E failing \in FailurePatterns(n, total) :
            LET rs == Outcomes(total, failing)
            IN  Ran("hierarchical_node", hierarchical_node(state, rs), rs, "reflect_node")

----------------------------------------------------------------------------
(* The BaseAgent loop *)

\* messages
HumanMessage(content) == [type |-> "human", content |-> content]
SystemMessage(content) == [type |-> "system", content |-> content]
AIMessage(content, tool_calls) == [type |-> "ai", content |-> content, tool_calls |-> tool_calls]
ToolMessage(tool_call_id, name, content) ==
    [type |-> "tool", tool_call_id |-> tool_call_id, name |-> name, content |-> content]

\* the names a model may ask for: the registered tool and one that is not
RequestedNames == {"t1", "bad"}

ToolCall(name, id) == [name |-> name, id |-> id, args |-> [x |-> 1]]

\* the tool call lists of a reply: up to MaxToolCalls calls, the i-th with id i
ToolCallLists ==
    UNION {[1 .. k -> RequestedNames] : k \in 0 .. MaxToolCalls}

ModelReplies ==
    {AIMessage(IF names = <<>> THEN <<"final answer">> ELSE <<>>,
               [i \in DOMAIN names |-> ToolCall(names[i], ToString(i))]) :
        names \in ToolCallLists}

\* what a tool invocation may do: return a string, return a number, raise
ToolOutcomes ==
    {[kind |-> "str", text |-> <<"42">>, num |-> 0],
     [kind |-> "int", text |-> <<>>, num |-> 123],
     [kind |-> "raise", text |-> <<"Tool error">>, num |-> 0]}

\* str(result)
Str(value) == IF value.kind = "int" THEN <<ToString(value.num)>> ELSE value.text

\* how the graph writes a node's "messages" to the state: AgentState declares
\* messages: list with no reducer, so the value returned replaces the old one
UpdateMessages(old, new) == new

\* mutant: the loop is capped, a reply after the cap counts as final
exists_action_capped(msgs) == Len(msgs[Len(msgs)].tool_calls) > 0 /\ turns + 1 < MaxTurns

\* mutant: an action exists only from the second tool call on
exists_action_more_than_one(msgs) == Len(msgs[Len(msgs)].tool_calls) > 1

exists_action(msgs) == Len(msgs[Len(msgs)].tool_calls) > 0

\* call_model: what the model is invoked with, and the update returned
call_model(msgs, reply) ==
    LET input == IF agent["system"] # "" THEN <<SystemMessage(agent["system"])>> \o msgs
                 ELSE msgs
    IN  [input |-> input, update |-> <<reply>>]

\* the content take_action gives the reply to one tool call
ToolResult(t, outcome) ==
    IF t.name \notin agent["tools"] THEN <<"bad tool name, retry">>
    ELSE IF outcome.kind = "raise" THEN <<"Exception: ">> \o outcome.text
    ELSE Str(outcome)

\* mutant: take_action stops at the first call it cannot serve
take_action_stops_at_failure(msgs, outcomes) ==
    LET tool_calls == msgs[Len(msgs)].tool_calls
        Served(i) == tool_calls[i].name \in agent["tools"] /\ outcomes[i].kind # "raise"
        upto == IF \E i \in DOMAIN tool_calls : ~Served(i)
                THEN CHOOSE i \in DOMAIN tool_calls :
                        ~Served(i) /\ \A j \in 1 .. i - 1 : Served(j)
                ELSE Len(tool_calls)
    IN  [update |->
            [i \in 1 .. upto |->
                ToolMessage(tool_calls[i].id, tool_calls[i].name,
                            ToolResult(tool_calls[i], outcomes[i]))],
         invocations |->
            SelectSeq([i \in 1 .. upto |->
                          [index |-> i, name |-> tool_calls[i].name,
                           args |-> tool_calls[i].args, outcome |-> outcomes[i]]],
                      LAMBDA e : e.name \in agent["tools"])]

\* mutant: each reply is put in front of the earlier ones
take_action_newest_first(msgs, outcomes) ==
    LET tool_calls == msgs[Len(msgs)].tool_calls
        n == Len(tool_calls)
    IN  [update |->
            [i \in DOMAIN tool_calls |->
                ToolMessage(tool_calls[n + 1 - i].id, tool_calls[n + 1 - i].name,
                            ToolResult(tool_calls[n + 1 - i], outcomes[n + 1 - i]))],
         invocations |->
            SelectSeq([i \in DOMAIN tool_calls |->
                          [index |-> i, name |-> tool_calls[i].name,
                           args |-> tool_calls[i].args, outcome |-> outcomes[i]]],
                      LAMBDA e : e.name \in agent["tools"])]

\* take_action: the update returned and the tool invocations made; outcomes[i]
\* is what the tool of call i does, read only when that tool is invoked
take_action(msgs, outcomes) ==
    LET tool_calls == msgs[Len(msgs)].tool_calls
    IN  [update |->
            [i \in DOMAIN tool_calls |->
                ToolMessage(tool_calls[i].id, tool_calls[i].name,
                            ToolResult(tool_calls[i], outcomes[i]))],
         invocations |->
            SelectSeq([i \in DOMAIN tool_calls |->
                          [index |-> i, name |-> tool_calls[i].name,
                           args |-> tool_calls[i].args, outcome |-> outcomes[i]]],
                      LAMBDA e : e.name \in agent["tools"])]

AgentInit ==
    /\ apc = "new"
    /\ agent = EmptyDict
    /\ messages = <<>>
    /\ history = <<>>
    /\ model_input = <<>>
    /\ invoked = <<>>
    /\ turns = 0

\* the messages a run is started with
InitialMessages == {<<HumanMessage(<<"What is 45 + 23?">>)>>}

\* BaseAgent.__init__
Construct ==
    /\ apc = "new"
    /\ \E system \in {"", "You are a helpful assistant"} :
        agent' = [system |-> system, tools |-> {"t1"}]
    /\ apc' = "ready"
    /\ UNCHANGED <<messages, history, model_input, invoked, turns, sumVars, toolVars, teamVars>>

\* agent.graph.invoke({"messages": [...]}): the entry point is "llm"
GraphInvoke ==
    /\ apc = "ready"
    /\ \E initial \in InitialMessages :
        /\ messages' = initial
        /\ history' = initial
    /\ apc' = "llm"
    /\ UNCHANGED <<agent, model_input, invoked, turns, sumVars, toolVars, teamVars>>

\* the "llm" node and its conditional edge; an exception of model.invoke is
\* not caught and ends the run
CallModel ==
    /\ apc = "llm"
    /\ turns < MaxTurns
    /\ turns' = turns + 1
    /\ \E reply \in ModelReplies \cup {Raised} :
        LET out == call_model(messages, reply)
        IN  /\ model_input' = out.input
            /\ IF reply = Raised
               THEN /\ apc' = "ABORTED"
                    /\ UNCHANGED <<messages, history>>
               ELSE /\ messages' = UpdateMessages(messages, out.update)
                    /\ history' = history \o out.update
                    /\ apc' = IF exists_action(UpdateMessages(messages, out.update))
                              THEN "action" ELSE "END"
    /\ UNCHANGED <<agent, invoked, sumVars, toolVars, teamVars>>

\* the "action" node and its edge back to "llm"
TakeAction ==
    /\ apc = "action"
    /\ \E outcomes \in [DOMAIN messages[Len(messages)].tool_calls -> ToolOutcomes] :
        LET out == take_action(messages, outcomes)
        IN  /\ messages' = UpdateMessages(messages, out.update)
            /\ history' = history \o out.update
            /\ invoked' = invoked \o out.invocations
    /\ apc' = "llm"
    /\ UNCHANGED <<agent, model_input, turns, sumVars, toolVars, teamVars>>

AgentNext ==
    \/ Construct
    \/ GraphInvoke
    \/ CallModel
    \/ TakeAction

----------------------------------------------------------------------------
(* The regex tools of core/tools/regex.py.  A text is a sequence of atoms; a
   pattern is known by what re makes of it: whether it compiles, how many
   capture groups it has, and which atoms it matches (every modelled pattern
   matches one whole atom at a time). *)

\* the characters of the modelled files
FileChars == {"a", "b"}

\* the words of the modelled texts: two addresses of one domain, one of
\* another, and a word that is no address
Words == {"ann@x.org", "bob@x.org", "ann@y.org", "hello"}
Addresses == {"ann@x.org", "bob@x.org", "ann@y.org"}

\* the capture groups of an address matched by a user@domain pattern
GroupsOf(atom) ==
    CASE atom = "ann@x.org" -> <<"ann", "x.org">>
      [] atom = "bob@x.org" -> <<"bob", "x.org">>
      [] atom = "ann@y.org" -> <<"ann", "y.org">>
      [] OTHER -> <<>>

\* re.compile(pattern): valid is FALSE when it raises re.error
Compiled ==
    [p \in {"a", "[ab]", "z", "(", "ADDRESS", "(USER)@DOMAIN", "(USER)@(DOMAIN)", "DIGITS"} |->
        CASE p = "a" -> [valid |-> TRUE, groups |-> 0, matches |-> {"a"}]
          [] p = "[ab]" -> [valid |-> TRUE, groups |-> 0, matches |-> {"a", "b"}]
          [] p = "z" -> [valid |-> TRUE, groups |-> 0, matches |-> {}]
          [] p = "ADDRESS" -> [valid |-> TRUE, groups |-> 0, matches |-> Addresses]
          [] p = "(USER)@DOMAIN" -> [valid |-> TRUE, groups |-> 1, matches |-> Addresses]
          [] p = "(USER)@(DOMAIN)" -> [valid |-> TRUE, groups |-> 2, matches |-> Addresses]
          [] p = "DIGITS" -> [valid |-> TRUE, groups |-> 0, matches |-> {}]
          [] OTHER -> [valid |-> FALSE, groups |-> 0, matches |-> {}]]

\* compiled_pattern.finditer(text): the matched atoms, left to right
finditer(compiled, text) == SelectSeq(text, LAMBDA atom : atom \in compiled.matches)

\* match.group(k) for k >= 1
group(atom, k) == GroupsOf(atom)[k]

\* compiled_pattern.findall(text): the whole match for a pattern without
\* groups, the group for a pattern with one, the tuple of groups otherwise
findall(compiled, text) ==
    LET found == finditer(compiled, text)
    IN  [i \in DOMAIN found |->
            IF compiled.groups = 0 THEN found[i]
            ELSE IF compiled.groups = 1 THEN group(found[i], 1)
            ELSE SubSeq(GroupsOf(found[i]), 1, compiled.groups)]

\* the replacement templates: texts, and a reference to a group the pattern
\* does not have, for which sub raises re.error
BadTemplate == <<"\\1">>

\* compiled_pattern.sub(replacement, content): every match replaced
RECURSIVE sub(_, _, _)
sub(compiled, replacement, content) ==
    IF content = <<>> THEN <<>>
    ELSE (IF Head(content) \in compiled.matches THEN replacement ELSE <<Head(content)>>)
            \o sub(compiled, replacement, Tail(content))

\* mutant: a repeated match moves to the place of its latest occurrence
RECURSIVE DeduplicateKeepLatest(_, _, _, _)
DeduplicateKeepLatest(found, i, seen, unique_matches) ==
    IF i > Len(found) THEN unique_matches
    ELSE DeduplicateKeepLatest(found, i + 1, seen \cup {found[i]},
            Append(SelectSeq(unique_matches, LAMBDA m : m # found[i]), found[i]))

\* the order-preserving removal of duplicates: seen and unique_matches after
\* the matches from index i on
RECURSIVE Deduplicate(_, _, _, _)
Deduplicate(found, i, seen, unique_matches) ==
    IF i > Len(found) THEN unique_matches
    ELSE IF found[i] \notin seen
    THEN Deduplicate(found, i + 1, seen \cup {found[i]}, Append(unique_matches, found[i]))
    ELSE Deduplicate(found, i + 1, seen, unique_matches)

\* extract_pattern_matches: what it returns; found is its list of matches
extract_pattern_matches(text, pattern, group_number) ==
    LET compiled == Compiled[pattern]
        found ==
            IF group_number = 0 THEN findall(compiled, text)
            ELSE LET all_matches == finditer(compiled, text)
                     kept == SelectSeq(all_matches, LAMBDA m : group_number <= compiled.groups)
                 IN  [i \in DOMAIN kept |-> group(kept[i], group_number)]
        unique_matches == Deduplicate(found, 1, {}, <<>>)
    IN  IF ~compiled.valid
        THEN [kind |-> "invalid pattern", found |-> <<>>, unique |-> 0, total |-> 0,
              lines |-> <<>>]
        ELSE IF found = <<>>
        THEN [kind |-> "no matches", found |-> found, unique |-> 0, total |-> 0, lines |-> <<>>]
        ELSE [kind |-> "extracted", found |-> found,
              unique |-> Len(unique_matches), total |-> Len(found),
              lines |-> [i \in DOMAIN unique_matches |->
                            [number |-> i, match |-> unique_matches[i]]]]

\* a directory, and a regular file of the given content that has been
\* opened for writing written times
Directory == [kind |-> "dir", content |-> <<>>, written |-> 0]
File(content, written) == [kind |-> "file", content |-> content, written |-> written]

\* mutant: the new content is written before dry_run is looked at
replace_pattern_in_file_writes_first(fs, file_path, pattern, replacement, dry_run) ==
    LET compiled == Compiled[pattern]
        original_content == fs[file_path].content
        new_content == sub(compiled, replacement, original_content)
        change_count == Len(findall(compiled, original_content))
        Returned(kind, count) == [kind |-> kind, count |-> count]
        written == [fs EXCEPT ![file_path] = File(new_content, fs[file_path].written + 1)]
    IN  IF file_path \notin DOMAIN fs
        THEN [returned |-> Returned("file not found", 0), fs |-> fs]
        ELSE IF fs[file_path].kind # "file"
        THEN [returned |-> Returned("not a file", 0), fs |-> fs]
        ELSE IF ~compiled.valid \/ replacement = BadTemplate
        THEN [returned |-> Returned("invalid pattern", 0), fs |-> fs]
        ELSE IF original_content = new_content
        THEN [returned |-> Returned("no matches", 0), fs |-> fs]
        ELSE IF dry_run
        THEN [returned |-> Returned("dry run", change_count), fs |-> written]
        ELSE [returned |-> Returned("replaced", change_count), fs |-> written]

\* replace_pattern_in_file: what it returns, and the file system after it
replace_pattern_in_file(fs, file_path, pattern, replacement, dry_run) ==
    LET compiled == Compiled[pattern]
        original_content == fs[file_path].content
        new_content == sub(compiled, replacement, original_content)
        change_count == Len(findall(compiled, original_content))
        Returned(kind, count) == [kind |-> kind, count |-> count]
    IN  IF file_path \notin DOMAIN fs
        THEN [returned |-> Returned("file not found", 0), fs |-> fs]
        ELSE IF fs[file_path].kind # "file"
        THEN [returned |-> Returned("not a file", 0), fs |-> fs]
        ELSE IF ~compiled.valid \/ replacement = BadTemplate
        THEN [returned |-> Returned("invalid pattern", 0), fs |-> fs]
        ELSE IF original_content = new_content
        THEN [returned |-> Returned("no matches", 0), fs |-> fs]
        ELSE IF dry_run
        THEN [returned |-> Returned("dry run", change_count), fs |-> fs]
        ELSE [returned |-> Returned("replaced", change_count),
              fs |-> [fs EXCEPT ![file_path] =
                        File(new_content, fs[file_path].written + 1)]]

\* the texts of at most n atoms
TextsUpTo(atoms, n) == UNION {[1 .. k -> atoms] : k \in 0 .. n}

\* the file systems the tools start on: a directory, and a file
Disks ==
    {[p \in {"notes.txt", "docs"} |->
        IF p = "docs" THEN Directory ELSE File(content, 0)] :
        content \in TextsUpTo(FileChars, MaxFileLen)}

NoCall == [tool |-> "none"]

ToolInit ==
    /\ disk = EmptyDict
    /\ last_call = NoCall
    /\ ncalls = 0

\* the tool called by an agent, or directly
ReplacePatternInFile ==
    /\ ncalls < MaxToolRuns
    /\ \E file_path \in {"notes.txt", "docs", "missing.txt"},
          pattern \in {"a", "[ab]", "z", "("},
          replacement \in {<<>>, <<"a">>, <<"b">>, <<"b", "b">>, BadTemplate},
          dry_run \in BOOLEAN :
        LET out == replace_pattern_in_file(disk, file_path, pattern, replacement, dry_run)
        IN  /\ disk' = out.fs
            /\ last_call' = [tool |-> "replace_pattern_in_file", file_path |-> file_path,
                             pattern |-> pattern, replacement |-> replacement,
                             dry_run |-> dry_run, returned |-> out.returned]
    /\ ncalls' = ncalls + 1
    /\ UNCHANGED <<sumVars, agentVars, teamVars>>

\* a call of extract_pattern_matches that has not returned yet
Pending == [kind |-> "pending", found |-> <<>>, unique |-> 0, total |-> 0, lines |-> <<>>]

\* the calls of extract_pattern_matches tried
ExtractCalls ==
    {[tool |-> "extract_pattern_matches", text |-> text, pattern |-> pattern,
      group_number |-> group_number, returned |-> Pending] :
        text \in TextsUpTo(Words, MaxTextLen),
        pattern \in {"ADDRESS", "(USER)@DOMAIN", "(USER)@(DOMAIN)", "DIGITS", "("},
        group_number \in 0 .. 3}

\* the tool runs on the arguments of the call and returns
ExtractPatternMatches ==
    /\ last_call.tool = "extract_pattern_matches"
    /\ last_call.returned = Pending
    /\ last_call' =
            [last_call EXCEPT !.returned =
                extract_pattern_matches(last_call.text, last_call.pattern,
                                        last_call.group_number)]
    /\ ncalls' = ncalls + 1
    /\ UNCHANGED <<disk, sumVars, agentVars, teamVars>>

----------------------------------------------------------------------------
(* The supervisor node of core/supervisor.py, in the team graphs of
   core/agents/research_team.py and core/agents/paper_writing.py: the graph
   starts at the supervisor, whose Command names the node to run next; every
   worker node returns to the supervisor. *)

\* langgraph's END
END == "__end__"

\* the member lists of the two teams
Teams == {<<"search", "web_scraper">>, <<"doc_writer", "note_taker", "chart_generator">>}

Range(q) == {q[i] : i \in DOMAIN q}

\* what llm.with_structured_output(Router).invoke may give: a reply whose
\* next is a member, FINISH, or a name that is neither; a reply without next;
\* an exception
RouterAnswers(names) ==
    {[kind |-> "reply", next |-> n] : n \in Range(names) \cup {"FINISH", "finish", "editor"}}
        \cup {[kind |-> "no next", next |-> ""], [kind |-> "raise", next |-> ""]}

system_prompt(names) == [role |-> "system", workers |-> names]

\* mutant: the update keeps the name the model gave, FINISH included
supervisor_node_keeps_answer(names, st, response) ==
    LET goto == IF response.next = "FINISH" THEN END ELSE response.next
    IN  [input |-> <<system_prompt(names)>> \o st["messages"],
         goto |-> goto, update |-> [next |-> response.next]]

\* supervisor_node: the messages the model is asked with, and the Command
supervisor_node(names, st, response) ==
    LET goto == IF response.next = "FINISH" THEN END ELSE response.next
    IN  [input |-> <<system_prompt(names)>> \o st["messages"],
         goto |-> goto, update |-> [next |-> goto]]

\* how the graph writes an update to State: messages has the add_messages
\* reducer (the new messages are appended), next is overwritten
TeamMerge(st, upd) ==
    [k \in DOMAIN st \cup DOMAIN upd |->
        IF k \notin DOMAIN upd THEN st[k]
        ELSE IF k = "messages" /\ k \in DOMAIN st THEN st[k] \o upd[k]
        ELSE upd[k]]

\* what a sub-agent's graph.invoke may return: its messages, the last of
\* them its final answer
SubAgentResults ==
    {[messages |-> << [type |-> "ai", content |-> <<"result A">>] >>],
     [messages |-> << [type |-> "ai", content |-> <<"searching">>],
                      [type |-> "tool", content |-> <<"3 hits">>],
                      [type |-> "ai", content |-> <<"result B">>] >>]}

\* a worker node: the last message of its sub-agent's run, as a HumanMessage
\* carrying the worker's name
worker_node(name, returned) ==
    [goto |-> "supervisor",
     update |-> [messages |-> <<[type |-> "human",
                                 content |-> returned.messages[Len(returned.messages)].content,
                                 name |-> name]>>]]

NoCommand == [reply |-> "", goto |-> "", update |-> EmptyDict]

TeamInit ==
    /\ tpc = "idle"
    /\ team = EmptyDict
    /\ members = <<>>
    /\ command = NoCommand
    /\ rounds = 0
    /\ subagent = [messages |-> <<>>]

\* the "supervisor" node and the edge its Command asks for; an exception of
\* the model, or a reply without next, ends the run; so does a goto naming no
\* node of the graph, by an error or silently (the graph library's choice)
SupervisorNode ==
    /\ tpc = "supervisor"
    /\ rounds < MaxRounds
    /\ rounds' = rounds + 1
    /\ \E response \in RouterAnswers(members) :
        IF response.kind # "reply"
        THEN /\ tpc' = "ABORTED"
             /\ command' = NoCommand
             /\ UNCHANGED team
        ELSE LET out == supervisor_node(members, team, response)
             IN  /\ command' = [reply |-> response.next, goto |-> out.goto, update |-> out.update]
                 /\ team' = TeamMerge(team, out.update)
                 /\ IF out.goto = END \/ out.goto \in Range(members)
                    THEN tpc' = out.goto
                    ELSE tpc' \in {"ABORTED", END}
    /\ UNCHANGED <<members, subagent, sumVars, agentVars, toolVars>>

\* a worker node and its edge back to the supervisor; an exception of the
\* worker's sub-agent ends the run
WorkerNode ==
    /\ tpc \in Range(members)
    /\ \/ \E returned \in SubAgentResults :
            LET out == worker_node(tpc, returned)
            IN  /\ subagent' = returned
                /\ team' = TeamMerge(team, out.update)
                /\ tpc' = out.goto
       \/ /\ tpc' = "ABORTED"
          /\ UNCHANGED <<team, subagent>>
    /\ UNCHANGED <<members, command, rounds, sumVars, agentVars, toolVars>>

TeamNext ==
    \/ SupervisorNode
    \/ WorkerNode

----------------------------------------------------------------------------
(* search_files_by_pattern of core/tools/regex.py.  A path is the sequence
   of its components; a directory's content is the names it holds, in the
   order os.listdir and os.walk give them.  The pattern is searched in the
   path's components (the part of the absolute path above the search path
   is taken to hold no match). *)

\* a directory holding the given names
Dir(names) == [kind |-> "dir", content |-> names, written |-> 0]

\* the listings of a directory of at most n files named a, b or c: no name
\* twice
Listings(n) ==
    {names \in UNION {[1 .. k -> {"a", "b", "c"}] : k \in 0 .. n} :
        \A i, j \in DOMAIN names : i # j => names[i] # names[j]}

\* the file systems searched: the directory docs with at most MaxDirFiles
\* files and, or not, the sub-directory old with at most MaxDirFiles files
SearchDisks ==
    {[p \in {<<"docs">>} \cup {<<"docs", names[i]>> : i \in DOMAIN names} |->
        IF p = <<"docs">> THEN Dir(names) ELSE File(<<>>, 0)] : names \in Listings(MaxDirFiles)}
    \cup
    {[p \in {<<"docs">>, <<"docs", "old">>}
            \cup {<<"docs", names[i]>> : i \in DOMAIN names}
            \cup {<<"docs", "old", inner[i]>> : i \in DOMAIN inner} |->
        IF p = <<"docs">> THEN Dir(names \o <<"old">>)
        ELSE IF p = <<"docs", "old">> THEN Dir(inner)
        ELSE File(<<>>, 0)] : names \in Listings(MaxDirFiles), inner \in Listings(MaxDirFiles)}

\* os.path.isfile, os.path.isdir
isfile(fs, path) == path \in DOMAIN fs /\ fs[path].kind = "file"
isdir(fs, path) == path \in DOMAIN fs /\ fs[path].kind = "dir"

\* os.walk(top), top-down: for each directory its path and the names of its
\* files; nothing when top is no directory
RECURSIVE walk(_, _)
walk(fs, top) ==
    LET names == fs[top].content
        files == SelectSeq(names, LAMBDA name : isfile(fs, Append(top, name)))
        dirs == SelectSeq(names, LAMBDA name : isdir(fs, Append(top, name)))
        Below[i \in 0 .. Len(dirs)] ==
            IF i = 0 THEN <<>> ELSE Below[i - 1] \o walk(fs, Append(top, dirs[i]))
    IN  IF ~isdir(fs, top) THEN <<>>
        ELSE <<[root |-> top, files |-> files]>> \o Below[Len(dirs)]

\* compiled_pattern.search(file_path)
search(compiled, file_path) == finditer(compiled, file_path) # <<>>

\* the loop over the names of one directory: a name that is a file and whose
\* path matches is appended, and the loop is left once the list holds
\* max_results paths or more
RECURSIVE ScanFiles(_, _, _, _, _, _)
ScanFiles(fs, compiled, root, files, matching_files, max_results) ==
    IF files = <<>> THEN matching_files
    ELSE LET file_path == Append(root, Head(files))
         IN  IF isfile(fs, file_path) /\ search(compiled, file_path)
             THEN IF Len(matching_files) + 1 >= max_results
                  THEN Append(matching_files, file_path)
                  ELSE ScanFiles(fs, compiled, root, Tail(files),
                                 Append(matching_files, file_path), max_results)
             ELSE ScanFiles(fs, compiled, root, Tail(files), matching_files, max_results)

\* the loop over the directories of os.walk, left after a directory once the
\* list holds max_results paths or more
RECURSIVE ScanDirs(_, _, _, _, _)
ScanDirs(fs, compiled, walked, matching_files, max_results) ==
    IF walked = <<>> THEN matching_files
    ELSE LET found == ScanFiles(fs, compiled, Head(walked).root, Head(walked).files,
                                matching_files, max_results)
         IN  IF Len(found) >= max_results THEN found
             ELSE ScanDirs(fs, compiled, Tail(walked), found, max_results)

\* what search_files_by_pattern returns: the kind of its message and the
\* paths it lists
SearchReturned(kind, files) == [kind |-> kind, files |-> files]

search_files_by_pattern(fs, pattern, search_path, recursive, max_results) ==
    LET compiled == Compiled[pattern]
        matching_files ==
            IF recursive
            THEN ScanDirs(fs, compiled, walk(fs, search_path), <<>>, max_results)
            ELSE IF isdir(fs, search_path)
            THEN ScanFiles(fs, compiled, search_path, fs[search_path].content,
                           <<>>, max_results)
            ELSE <<>>
    IN  IF search_path \notin DOMAIN fs THEN SearchReturned("path does not exist", <<>>)
        ELSE IF ~compiled.valid THEN SearchReturned("invalid pattern", <<>>)
        ELSE IF matching_files = <<>> THEN SearchReturned("no files found", <<>>)
        ELSE SearchReturned("found", matching_files)

\* the calls of search_files_by_pattern tried
SearchCalls ==
    {[tool |-> "search_files_by_pattern", pattern |-> pattern, search_path |-> search_path,
      recursive |-> recursive, max_results |-> max_results, returned |-> Pending] :
        pattern \in {"a", "[ab]", "z", "("},
        search_path \in {<<"docs">>, <<"docs", "old">>, <<"docs", "a">>},
        recursive \in BOOLEAN,
        max_results \in 0 .. MaxResults}

\* the tool runs on the arguments of the call and returns
SearchFilesByPattern ==
    /\ last_call.tool = "search_files_by_pattern"
    /\ last_call.returned = Pending
    /\ last_call' =
            [last_call EXCEPT !.returned =
                search_files_by_pattern(disk, last_call.pattern, last_call.search_path,
                                        last_call.recursive, last_call.max_results)]
    /\ ncalls' = ncalls + 1
    /\ UNCHANGED <<disk, sumVars, agentVars, teamVars>>

----------------------------------------------------------------------------
(* The document tools of core/tools/document_io.py.  A file's content is a
   sequence of characters, the newline among them; every tool addresses the
   file by its name under the working directory. *)

\* the characters of the documents on disk and of the contents written
DocChars == {"x", "\n"}

\* file.readlines(): the lines of a content, each with its newline, the last
\* one without when the content does not end in a newline
RECURSIVE readlines(_)
readlines(content) ==
    LET i == Find(content, "\n", 1)
    IN  IF content = <<>> THEN <<>>
        ELSE IF i = 0 THEN <<content>>
        ELSE <<SubSeq(content, 1, i)>> \o readlines(SubSeq(content, i + 1, Len(content)))

\* file.writelines(lines): the lines one after another, nothing added
RECURSIVE writelines(_)
writelines(lines) ==
    IF lines = <<>> THEN <<>> ELSE Head(lines) \o writelines(Tail(lines))

\* lines[start:end] for start >= 0 and end >= 0 or None (the empty sequence)
Slice(lines, start, end) ==
    LET n == Len(lines)
        lo == IF start > n THEN n ELSE start
        hi == IF end = <<>> THEN n ELSE IF end[1] > n THEN n ELSE end[1]
    IN  SubSeq(lines, lo + 1, hi)

\* list.insert(index, value) for 0 <= index <= len
ListInsert(lines, index, value) ==
    SubSeq(lines, 1, index) \o <<value>> \o SubSeq(lines, index + 1, Len(lines))

\* sorted(keys)
RECURSIVE Sorted(_)
Sorted(keys) ==
    IF keys = {} THEN <<>>
    ELSE LET least == CHOOSE k \in keys : \A j \in keys : k <= j
         IN  <<least>> \o Sorted(keys \ {least})

\* what a document tool returns: the kind of its message (raised when open
\* found no file to read), the line number an error names (0 otherwise) and
\* the text read (empty otherwise)
DocReturned(kind, line_number, text) ==
    [kind |-> kind, line_number |-> line_number, text |-> text]

\* read_document; start and end are None (the empty sequence) or a number
read_document(fs, file_name, start, end) ==
    LET lines == readlines(fs[file_name].content)
        from == IF start = <<>> THEN 0 ELSE start[1]
    IN  IF file_name \notin DOMAIN fs THEN DocReturned("raised", 0, <<>>)
        ELSE DocReturned("text", 0, Join("\n", Slice(lines, from, end)))

\* write_document: what it returns and the file system after it
write_document(fs, content, file_name) ==
    LET written == IF file_name \in DOMAIN fs THEN fs[file_name].written ELSE 0
    IN  [returned |-> DocReturned("saved", 0, <<>>),
         fs |-> Merge(fs, [p \in {file_name} |-> File(content, written + 1)])]

\* the loop of edit_document over the sorted inserts: the lines after it, or
\* the first line number found out of range
RECURSIVE InsertLoop(_, _, _)
InsertLoop(lines, sorted_inserts, inserts) ==
    IF sorted_inserts = <<>> THEN [ok |-> TRUE, lines |-> lines, line_number |-> 0]
    ELSE LET line_number == Head(sorted_inserts)
         IN  IF 1 <= line_number /\ line_number <= Len(lines) + 1
             THEN InsertLoop(ListInsert(lines, line_number - 1,
                                        inserts[line_number] \o <<"\n">>),
                             Tail(sorted_inserts), inserts)
             ELSE [ok |-> FALSE, lines |-> lines, line_number |-> line_number]

\* mutant: the lines inserted before the error are written to the file
edit_document_saves_before_error(fs, file_name, inserts) ==
    LET lines == readlines(fs[file_name].content)
        done == InsertLoop(lines, Sorted(DOMAIN inserts), inserts)
        saved == [fs EXCEPT ![file_name] =
                        File(writelines(done.lines), fs[file_name].written + 1)]
    IN  IF file_name \notin DOMAIN fs THEN [returned |-> DocReturned("raised", 0, <<>>), fs |-> fs]
        ELSE IF ~done.ok
        THEN [returned |-> DocReturned("out of range", done.line_number, <<>>), fs |-> saved]
        ELSE [returned |-> DocReturned("edited", 0, <<>>), fs |-> saved]

\* edit_document: what it returns and the file system after it
edit_document(fs, file_name, inserts) ==
    LET lines == readlines(fs[file_name].content)
        done == InsertLoop(lines, Sorted(DOMAIN inserts), inserts)
    IN  IF file_name \notin DOMAIN fs THEN [returned |-> DocReturned("raised", 0, <<>>), fs |-> fs]
        ELSE IF ~done.ok
        THEN [returned |-> DocReturned("out of range", done.line_number, <<>>), fs |-> fs]
        ELSE [returned |-> DocReturned("edited", 0, <<>>),
              fs |-> [fs EXCEPT ![file_name] =
                        File(writelines(done.lines), fs[file_name].written + 1)]]

\* the working directories the document tools start on: empty, or holding
\* one document
DocDisks ==
    {EmptyDict} \cup
    {[p \in {"notes.txt"} |-> File(content, 0)] : content \in TextsUpTo(DocChars, MaxDocLen)}

\* the inserts of a call of edit_document: at most MaxInserts line numbers
\* from 0 to MaxLine, each with its text, y or z
InsertDicts ==
    UNION {[keys -> {<<"y">>, <<"z">>}] :
            keys \in {ks \in SUBSET (0 .. MaxLine) : Cardinality(ks) <= MaxInserts}}

\* the calls of write_document and edit_document tried
DocCalls ==
    {[tool |-> "write_document", file_name |-> "notes.txt", content |-> content,
      inserts |-> EmptyDict, returned |-> Pending] :
        content \in TextsUpTo(DocChars, MaxDocLen)}
    \cup
    {[tool |-> "edit_document", file_name |-> "notes.txt", content |-> <<>>,
      inserts |-> inserts, returned |-> Pending] : inserts \in InsertDicts}

\* write_document runs on the arguments of the call and returns
WriteDocument ==
    /\ last_call.tool = "write_document"
    /\ last_call.returned = Pending
    /\ LET out == write_document(disk, last_call.content, last_call.file_name)
       IN  /\ disk' = out.fs
           /\ last_call' = [last_call EXCEPT !.returned = out.returned]
    /\ ncalls' = ncalls + 1
    /\ UNCHANGED <<sumVars, agentVars, teamVars>>

\* edit_document runs on the arguments of the call and returns
EditDocument ==
    /\ last_call.tool = "edit_document"
    /\ last_call.returned = Pending
    /\ LET out == edit_document(disk, last_call.file_name, last_call.inserts)
       IN  /\ disk' = out.fs
           /\ last_call' = [last_call EXCEPT !.returned = out.returned]
    /\ ncalls' = ncalls + 1
    /\ UNCHANGED <<sumVars, agentVars, teamVars>>

\* the document is read back after a write or an edit returned
ReadDocument ==
    /\ last_call.tool \in {"write_document", "edit_document"}
    /\ last_call.returned # Pending
    /\ \E file_name \in {"notes.txt", "missing.txt"},
          start \in {<<>>, <<0>>, <<1>>}, end \in {<<>>, <<1>>, <<2>>} :
        last_call' = [tool |-> "read_document", file_name |-> file_name,
                      start |-> start, end |-> end, after |-> last_call,
                      returned |-> read_document(disk, file_name, start, end)]
    /\ ncalls' = ncalls + 1
    /\ UNCHANGED <<disk, sumVars, agentVars, teamVars>>

----------------------------------------------------------------------------
(* count_tokens and get_doc_metadata of core/tools/summarization.py called on
   their own, on texts of every length up to MaxMetaLen *)

\* the calls of the two functions tried, the texts kept as the documents of
\* the graph are, the empty text among them
MetaCalls ==
    {[tool |-> f, text |-> text, returned |-> Pending] :
        f \in {"count_tokens", "get_doc_metadata"},
        text \in {[len |-> n, blank |-> b, lines |-> 1, paragraphs |-> IF b THEN 0 ELSE 1] :
                    n \in 0 .. MaxMetaLen, b \in BOOLEAN}
                    \ {[len |-> 0, blank |-> FALSE, lines |-> 1, paragraphs |-> 1]}}

\* count_tokens runs on the text of the call and returns
CountTokens ==
    /\ last_call.tool = "count_tokens"
    /\ last_call.returned = Pending
    /\ last_call' = [last_call EXCEPT
                        !.returned = [kind |-> "tokens", value |-> count_tokens(last_call.text)]]
    /\ ncalls' = ncalls + 1
    /\ UNCHANGED <<disk, sumVars, agentVars, teamVars>>

\* get_doc_metadata runs on the text of the call and returns
GetDocMetadata ==
    /\ last_call.tool = "get_doc_metadata"
    /\ last_call.returned = Pending
    /\ last_call' = [last_call EXCEPT
                        !.returned = [kind |-> "metadata",
                                      value |-> get_doc_metadata(last_call.text)]]
    /\ ncalls' = ncalls + 1
    /\ UNCHANGED <<disk, sumVars, agentVars, teamVars>>

----------------------------------------------------------------------------
(* SmartChunker.chunk called with custom sizes *)

\* the custom chunk sizes and overlaps tried: None or 0 (both 0), the small
\* values, and values at and around the default overlaps
CustomValues == (0 .. MaxCustom) \cup {49, 50, 51, 100, 400, 401}

\* the calls of SmartChunker.chunk tried, on a text that is not blank
ChunkCalls ==
    {[tool |-> "chunk", strategy |-> strategy, custom_chunk_size |-> custom_chunk_size,
      custom_overlap |-> custom_overlap, returned |-> Pending] :
        strategy \in Strategies,
        custom_chunk_size \in CustomValues,
        custom_overlap \in CustomValues}

\* chunk runs on the arguments of the call up to the construction of the
\* splitter; what is recorded is what the splitter is given
SmartChunkerChunk ==
    /\ last_call.tool = "chunk"
    /\ last_call.returned = Pending
    /\ LET params == ChunkParams(last_call.strategy, last_call.custom_chunk_size,
                                 last_call.custom_overlap)
       IN  last_call' = [last_call EXCEPT
                            !.returned = [kind |-> "splitter", chunk_size |-> params.chunk_size,
                                          chunk_overlap |-> params.chunk_overlap]]
    /\ ncalls' = ncalls + 1
    /\ UNCHANGED <<disk, sumVars, agentVars, teamVars>>

----------------------------------------------------------------------------
(* Specifications *)

SumInit ==
    /\ pc = "idle"
    /\ state = EmptyDict
    /\ trace = <<>>
    /\ result = <<>>

Init ==
    /\ SumInit
    /\ AgentInit
    /\ ToolInit
    /\ TeamInit

Spec == Init /\ [][SumNext]_vars

AgentSpec == Init /\ [][AgentNext]_vars

\* the hierarchical executor about to run on a document of 1 to MaxLeaves chunks
HierInit ==
    /\ pc = "hierarchical_node"
    /\ \E n \in 1 .. MaxLeaves :
        /\ state = AfterChunking(n).state
        /\ trace = AfterChunking(n).trace
    /\ result = <<>>
    /\ AgentInit
    /\ ToolInit
    /\ TeamInit

HierSpec == HierInit /\ [][HierarchicalNodeOnManyChunks]_vars

\* replace_pattern_in_file on a file system of one file and one directory
FileStart ==
    /\ SumInit
    /\ AgentInit
    /\ TeamInit
    /\ disk \in Disks
    /\ last_call = NoCall
    /\ ncalls = 0

FileSpec == FileStart /\ [][ReplacePatternInFile]_vars

\* a call of extract_pattern_matches about to run
ExtractStart ==
    /\ SumInit
    /\ AgentInit
    /\ TeamInit
    /\ disk = EmptyDict
    /\ last_call \in ExtractCalls
    /\ ncalls = 0

ExtractSpec == ExtractStart /\ [][ExtractPatternMatches]_vars

DocNext ==
    \/ WriteDocument
    \/ EditDocument
    \/ ReadDocument

\* a call of write_document or edit_document about to run in the working
\* directory
DocStart ==
    /\ SumInit
    /\ AgentInit
    /\ TeamInit
    /\ disk \in DocDisks
    /\ last_call \in DocCalls
    /\ ncalls = 0

DocSpec == DocStart /\ [][DocNext]_vars

MetaNext ==
    \/ CountTokens
    \/ GetDocMetadata

\* a call of count_tokens or get_doc_metadata about to run
MetaStart ==
    /\ SumInit
    /\ AgentInit
    /\ TeamInit
    /\ disk = EmptyDict
    /\ last_call \in MetaCalls
    /\ ncalls = 0

MetaSpec == MetaStart /\ [][MetaNext]_vars

\* a call of search_files_by_pattern about to run
SearchStart ==
    /\ SumInit
    /\ AgentInit
    /\ TeamInit
    /\ disk \in SearchDisks
    /\ last_call \in SearchCalls
    /\ ncalls = 0

SearchSpec == SearchStart /\ [][SearchFilesByPattern]_vars

\* a call of SmartChunker.chunk about to run
ChunkStart ==
    /\ SumInit
    /\ AgentInit
    /\ TeamInit
    /\ disk = EmptyDict
    /\ last_call \in ChunkCalls
    /\ ncalls = 0

ChunkSpec == ChunkStart /\ [][SmartChunkerChunk]_vars

\* team.graph.invoke({"messages": [...]}) on either team: START leads to the
\* supervisor
TeamStart ==
    /\ SumInit
    /\ AgentInit
    /\ ToolInit
    /\ tpc = "supervisor"
    /\ members \in Teams
    /\ team = [messages |-> <<[type |-> "human", content |-> <<"Write a report">>,
                               name |-> "user"]>>]
    /\ command = NoCommand
    /\ rounds = 0
    /\ subagent = [messages |-> <<>>]

TeamSpec == TeamStart /\ [][TeamNext]_vars

----------------------------------------------------------------------------
(* Properties of the summarization graph *)

\* how many times a node has run
TimesRun(node) == Cardinality({i \in DOMAIN trace : trace[i].node = node})

\* the model calls made, and those that failed, in the whole run so far
RECURSIVE SumOf(_, _)
SumOf(t, field) == IF t = <<>> THEN 0 ELSE Head(t)[field] + SumOf(Tail(t), field)

RouterRan == Len(trace) >= 1 /\ trace[1].node = "router_node"

\* the estimate the spec gives for the document of the run: characters / 4
EstimatedTokens == state["original_text"].len \div 4

IsApproved(critique) == Upper(Strip(critique)) = APPROVED

\* C1: revision_count is at most 2 in every reachable state, and the revise
\* node has run at most 2 times.
C1_RevisionBound ==
    /\ Get(state, "revision_count", 0) <= 2
    /\ TimesRun("revise_node") <= 2

\* a run stopped by the revision maximum: two revisions, the last critique
\* still not an approval
C1_Witness ==
    /\ pc = "END"
    /\ TimesRun("revise_node") = 2
    /\ state["revision_count"] = 2
    /\ ~IsApproved(state["critique_feedback"])

\* C2: a reflect step leads to revise exactly when its critique is not
\* APPROVED (trimmed, whatever the case) and revision_count is below 2, and to
\* END otherwise; a revise step leads back to reflect; END is entered from
\* reflect (or, off the loop, from direct summarize) only.
C2_ReflectRouting ==
    [][/\ pc = "reflect_node" =>
            /\ pc' \in {"revise_node", "END"}
            /\ pc' = "revise_node" <=>
                    /\ ~IsApproved(state'["critique_feedback"])
                    /\ state'["revision_count"] < 2
       /\ pc = "revise_node" => pc' = "reflect_node"
       /\ (pc' = "END" /\ pc # "END") => pc \in {"reflect_node", "direct_summarize_node"}
      ]_vars

\* a reflect step approved in lower case, with padding, before any revision:
\* the run ended
C2_Witness ==
    /\ pc = "END"
    /\ trace[Len(trace)].node = "reflect_node"
    /\ trace[Len(trace)].replies[1].ok
    /\ trace[Len(trace)].replies[1].content # APPROVED
    /\ IsApproved(state["critique_feedback"])
    /\ state["revision_count"] < 2

\* the router's model proposed a strategy outside the three
ForeignStrategy ==
    /\ "selected_strategy" \in DOMAIN state
    /\ state["selected_strategy"] \notin {"MAP_REDUCE", "REFINE", "HIERARCHICAL"}

\* C3: a run of the graph (started with original_text alone) reaches END with
\* final_output set, whatever model calls fail, unless the router's model
\* proposed a strategy outside the three: the run aborts in that case only,
\* it is at END only with final_output set, where it is not over the next
\* thing to run is a node of the graph (with the chunks an executor reads in
\* place), and it runs at most 8 nodes.
C3_RunCompletes ==
    /\ pc = "ABORTED" => ForeignStrategy
    /\ pc = "END" => "final_output" \in DOMAIN state
    /\ pc \notin {"idle", "END", "RETURNED", "ABORTED"} =>
            /\ pc \in {"router_node", "direct_summarize_node", "chunk_node", "map_reduce_node",
                       "refine_node", "hierarchical_node", "reflect_node", "revise_node"}
            /\ "original_text" \in DOMAIN state
            /\ pc \in {"map_reduce_node", "refine_node", "hierarchical_node"} =>
                    "chunks" \in DOMAIN state
    /\ Len(trace) <= 8

\* a chunked run in which every model call failed, at END with an output
C3_Witness ==
    /\ pc = "END"
    /\ "final_output" \in DOMAIN state
    /\ TimesRun("chunk_node") = 1
    /\ SumOf(trace, "calls") >= 4
    /\ SumOf(trace, "failed") = SumOf(trace, "calls")

\* C4: for a document under 2000 estimated tokens the router makes no model
\* call, selects MAP_REDUCE, and the run takes the direct path.
C4_ShortIsDirect ==
    (RouterRan /\ EstimatedTokens < 2000) =>
        /\ trace[1].calls = 0
        /\ state["selected_strategy"] = "MAP_REDUCE"
        /\ Len(trace) = 1 => pc = "direct_summarize_node"
        /\ Len(trace) >= 2 => trace[2].node = "direct_summarize_node"
        /\ TimesRun("chunk_node") = 0

\* a document of 1999 estimated tokens, directly summarized
C4_Witness ==
    /\ RouterRan
    /\ EstimatedTokens = 1999
    /\ TimesRun("direct_summarize_node") = 1
    /\ pc = "END"

NotAJsonObject == {<<"This is not valid JSON at all!">>, <<"{not json}">>, <<"[]">>}

GenericFocus == {<<"Summarize the key points.">>, <<"Extract main ideas and key points.">>}

\* C6: for a document of 2000 <= estimated tokens < 50000 the router makes
\* exactly one model call; when the call fails or the reply is no JSON object
\* the strategy is MAP_REDUCE with a generic focus.
C6_RouterFallback ==
    (RouterRan /\ EstimatedTokens >= 2000 /\ EstimatedTokens < 50000) =>
        /\ trace[1].calls = 1
        /\ Len(trace[1].replies) = 1
        /\ (~trace[1].replies[1].ok \/ trace[1].replies[1].content \in NotAJsonObject) =>
                /\ state["selected_strategy"] = "MAP_REDUCE"
                /\ state["summary_focus"] \in GenericFocus

\* the router's reply was plain prose, and the map-reduce executor ran
C6_Witness ==
    /\ RouterRan
    /\ EstimatedTokens = 2000
    /\ trace[1].replies = <<Ok(<<"This is not valid JSON at all!">>)>>
    /\ TimesRun("map_reduce_node") = 1

StrategyNode ==
    [s \in {"MAP_REDUCE", "REFINE", "HIERARCHICAL"} |->
        CASE s = "MAP_REDUCE" -> "map_reduce_node"
          [] s = "REFINE" -> "refine_node"
          [] OTHER -> "hierarchical_node"]

\* the node at position i of a chunked run: chunk, the executor of the
\* selected strategy, reflect, then revise and reflect in turn
ChunkedOrder(i) ==
    IF i = 2 THEN "chunk_node"
    ELSE IF i = 3 THEN StrategyNode[state["selected_strategy"]]
    ELSE IF i % 2 = 0 THEN "reflect_node" ELSE "revise_node"

----------------------------------------------------------------------------
(* Properties of the BaseAgent loop *)

\* the system message call_model puts first, if the agent has one
SystemPrefix == IF agent["system"] # "" THEN <<SystemMessage(agent["system"])>> ELSE <<>>

\* C8: call_model invokes the model with the full accumulated message list
\* (the initial messages and every earlier reply and tool result, in order,
\* after the system message if any), and the reply is appended to that list:
\* once call_model has run, the state's messages are the whole history.
C8_FullHistory ==
    apc \in {"action", "END"} =>
        /\ model_input = SystemPrefix \o SubSeq(history, 1, Len(history) - 1)
        /\ messages = history

\* C9: a call_model step leads to END exactly when the reply it got has no
\* tool calls, and to take_action otherwise; a take_action step leads back to
\* call_model; END is entered from call_model only.
C9_LoopExit ==
    [][/\ (apc = "llm" /\ apc' # "ABORTED") =>
            /\ apc' \in {"action", "END"}
            /\ apc' = "END" <=> history'[Len(history')].tool_calls = <<>>
       /\ apc = "action" => apc' = "llm"
       /\ (apc' = "END" /\ apc # "END") => apc = "llm"
      ]_vars

\* a run that served a tool call and then ended on a reply without any
C9_Witness ==
    /\ apc = "END"
    /\ turns >= 2
    /\ invoked # <<>>
    /\ history[Len(history)].tool_calls = <<>>

\* C10: a take_action step always leads back to call_model with one reply per
\* requested call: a call naming an unregistered tool gets the fixed content
\* and invokes nothing, a registered tool is invoked, and when it raises the
\* reply carries the error text; the calls after it are served all the same.
C10_ToolFailuresContained ==
    [][apc = "action" =>
            LET tool_calls == messages[Len(messages)].tool_calls
                replies == SubSeq(history', Len(history) + 1, Len(history'))
                new == SubSeq(invoked', Len(invoked) + 1, Len(invoked'))
            IN  /\ apc' = "llm"
                /\ Len(replies) = Len(tool_calls)
                /\ \A i \in DOMAIN tool_calls :
                    IF tool_calls[i].name \notin agent["tools"]
                    THEN /\ replies[i].content = <<"bad tool name, retry">>
                         /\ \A j \in DOMAIN new : new[j].index # i
                    ELSE \E j \in DOMAIN new :
                            /\ new[j].index = i
                            /\ new[j].name = tool_calls[i].name
                            /\ new[j].outcome.kind = "raise" =>
                                    replies[i].content = <<"Exception: ", "Tool error">>
      ]_vars

\* a reply asked for two tools: the first raised, the second is not
\* registered; both were answered and the model is called again
C10_Witness ==
    /\ apc = "llm"
    /\ Len(history) >= 2
    /\ history[Len(history) - 1].type = "tool"
    /\ history[Len(history) - 1].content = <<"Exception: ", "Tool error">>
    /\ history[Len(history)].type = "tool"
    /\ history[Len(history)].content = <<"bad tool name, retry">>
    /\ invoked[Len(invoked)].outcome.kind = "raise"

\* C11: a take_action step returns exactly one tool reply per tool call of the
\* model's latest message, in the order of the calls; reply i carries the id
\* and the name of call i, and its content is a string: what the tool
\* returned, converted with str when it is a number.
C11_OneReplyPerCall ==
    [][apc = "action" =>
            LET tool_calls == messages[Len(messages)].tool_calls
                replies == SubSeq(history', Len(history) + 1, Len(history'))
                new == SubSeq(invoked', Len(invoked) + 1, Len(invoked'))
            IN  /\ Len(replies) = Len(tool_calls)
                /\ messages' = replies
                /\ \A i \in DOMAIN tool_calls :
                    /\ replies[i].type = "tool"
                    /\ replies[i].tool_call_id = tool_calls[i].id
                    /\ replies[i].name = tool_calls[i].name
                    /\ \A k \in DOMAIN replies[i].content : replies[i].content[k] \in STRING
                    /\ \A j \in DOMAIN new :
                        (new[j].index = i /\ new[j].outcome.kind = "int") =>
                            replies[i].content = <<"123">>
                    /\ \A j \in DOMAIN new :
                        (new[j].index = i /\ new[j].outcome.kind = "str") =>
                            replies[i].content = new[j].outcome.text
      ]_vars

\* a reply asked for the registered tool and then for an unknown one: the
\* first answer carries id 1 and the number the tool returned, as a string,
\* the second carries id 2
C11_Witness ==
    /\ apc = "llm"
    /\ Len(messages) = 2
    /\ messages[1] = ToolMessage("1", "t1", <<"123">>)
    /\ messages[2].tool_call_id = "2"
    /\ messages[2].name = "bad"

\* C12: the loop has no iteration bound of its own: as long as every reply of
\* the model requests at least one tool call the run is not at END; a run at
\* END ended on a reply without tool calls.
C12_NoLoopBound ==
    /\ (\A i \in DOMAIN history : history[i].type = "ai" => history[i].tool_calls # <<>>)
            => apc # "END"
    /\ apc = "END" => history[Len(history)].tool_calls = <<>>

\* two replies in a row requested tools; the run is back at call_model
C12_Witness ==
    /\ apc = "llm"
    /\ turns >= 2
    /\ Cardinality({i \in DOMAIN history : history[i].type = "ai"}) >= 2
    /\ \A i \in DOMAIN history : history[i].type = "ai" => history[i].tool_calls # <<>>

----------------------------------------------------------------------------
(* Properties of the executors *)

\* the executor is the third node of a chunked run
ExecutorRan(node) == Len(trace) >= 3 /\ trace[3].node = node

\* C13: once the map-reduce executor has run, chunk_summaries has one entry
\* per chunk, in chunk order: the reply of the chunk's call, or for a failed
\* call the marker naming the chunk's number; the executor made one call per
\* chunk and then exactly one reduce call, whose reply is the draft, or, when
\* it failed, the chunk summaries joined by blank lines.
C13_MapPhaseCompletes ==
    ExecutorRan("map_reduce_node") =>
        LET n == Len(state["chunks"])
            rs == trace[3].replies
            cs == state["chunk_summaries"]
        IN  /\ trace[3].calls = n + 1
            /\ Len(rs) = n + 1
            /\ Len(cs) = n
            /\ \A i \in 1 .. n :
                cs[i] = IF rs[i].ok THEN rs[i].content
                        ELSE <<"[Chunk ", ToString(i), " failed: ", "provider down", "]">>
            /\ Len(trace) = 3 =>
                    state["draft_summary"] =
                        IF rs[n + 1].ok THEN rs[n + 1].content ELSE Join("\n\n", cs)

\* two chunks: the call for the first failed, the second was summarized, the
\* reduce call failed
C13_Witness ==
    /\ ExecutorRan("map_reduce_node")
    /\ Len(trace) = 3
    /\ Len(state["chunks"]) = 2
    /\ state["chunk_summaries"] =
            <<(<<"[Chunk ", "1", " failed: ", "provider down", "]">>), (<<"summary A">>)>>
    /\ state["draft_summary"] =
            <<"[Chunk ", "1", " failed: ", "provider down", "]", "\n\n", "summary A">>

\* the running summary the claim gives after chunk i of a refine run
RECURSIVE RunningAfter(_, _)
RunningAfter(rs, i) ==
    IF i = 0 THEN <<>>
    ELSE IF rs[i].ok THEN rs[i].content
    ELSE IF i = 1 THEN <<"[Initial chunk failed: ", "provider down", "]">>
    ELSE RunningAfter(rs, i - 1)

\* C14: once the refine executor has run, it made one call per chunk, the
\* i-th for chunk i; every call after the first was given the running summary
\* as it stood after the chunk before it (the reply for that chunk, the error
\* placeholder when the first chunk failed, the previous running summary when
\* a later one failed); running_summary is the one after the last chunk, and
\* draft_summary equals it.
C14_RefineFoldsInOrder ==
    ExecutorRan("refine_node") =>
        LET chunks == state["chunks"]
            n == Len(chunks)
            rs == trace[3].replies
            prompts == trace[3].prompts
        IN  /\ trace[3].calls = n
            /\ Len(rs) = n
            /\ Len(prompts) = n
            /\ \A i \in 1 .. n : prompts[i].chunk = chunks[i]
            /\ \A i \in 2 .. n : prompts[i].running_summary = RunningAfter(rs, i - 1)
            /\ state["running_summary"] = RunningAfter(rs, n)
            /\ Len(trace) = 3 => state["draft_summary"] = state["running_summary"]

\* two chunks: the first was summarized, the call for the second failed, and
\* the draft is the summary of the first
C14_Witness ==
    /\ ExecutorRan("refine_node")
    /\ Len(trace) = 3
    /\ Len(state["chunks"]) = 2
    /\ trace[3].replies = <<Ok(<<"summary A">>), Raised>>
    /\ trace[3].prompts[2].running_summary = <<"summary A">>
    /\ state["draft_summary"] = <<"summary A">>

\* the sizes of the layers the claim gives for n chunks: n, then the number of
\* batches of at most 5 of the layer before, down to one
RECURSIVE LayerSizes(_)
LayerSizes(n) == IF n <= 1 THEN <<n>> ELSE <<n>> \o LayerSizes((n + 4) \div 5)

RECURSIVE SumSeq(_)
SumSeq(q) == IF q = <<>> THEN 0 ELSE Head(q) + SumSeq(Tail(q))

\* the number of summaries in the layers before layer k
LayerOffset(sizes, k) == SumSeq(SubSeq(sizes, 1, k - 1))

\* C15: for every number n >= 1 of chunks the hierarchical executor ends with
\* exactly one summary, the draft: the layers have n, ceil(n/5), ... summaries,
\* strictly fewer each time, down to 1; the executor makes one call per leaf
\* and one per batch, in that order; the summary of batch b of a layer is the
\* reply of its call, or, when the call failed, the (at most 5) consecutive
\* summaries of the layer before joined by spaces.
C15_MergeTerminates ==
    ExecutorRan("hierarchical_node") =>
        LET n == Len(state["chunks"])
            rs == trace[3].replies
            all == state["chunk_summaries"]
            sizes == LayerSizes(n)
        IN  /\ n >= 1
            /\ sizes[Len(sizes)] = 1
            /\ \A k \in 2 .. Len(sizes) : sizes[k] < sizes[k - 1]
            /\ Len(all) = SumSeq(sizes)
            /\ trace[3].calls = SumSeq(sizes)
            /\ Len(rs) = SumSeq(sizes)
            /\ \A i \in 1 .. n :
                all[i] = IF rs[i].ok THEN rs[i].content
                         ELSE <<"[Leaf ", ToString(i), " summary]">>
            /\ \A k \in 2 .. Len(sizes) : \A b \in 1 .. sizes[k] :
                LET at == LayerOffset(sizes, k) + b
                    from == LayerOffset(sizes, k - 1) + 5 * (b - 1) + 1
                    last == LayerOffset(sizes, k - 1) + sizes[k - 1]
                    to == IF from + 4 < last THEN from + 4 ELSE last
                IN  all[at] = IF rs[at].ok THEN rs[at].content
                              ELSE Join(" ", SubSeq(all, from, to))
            /\ Len(trace) = 3 => state["draft_summary"] = all[Len(all)]

\* 26 chunks, merged in layers of 6, 2 and 1 summaries, every merge call
\* having failed: the draft is the 26 leaf summaries joined by spaces
C15_Witness ==
    /\ ExecutorRan("hierarchical_node")
    /\ Len(state["chunks"]) = 26
    /\ Len(state["chunk_summaries"]) = 26 + 6 + 2 + 1
    /\ trace[3].failed = 9
    /\ Len(state["draft_summary"]) = 26 * 2 + 25

----------------------------------------------------------------------------
(* Properties of revise, and of the model calls of the nodes *)

\* C16: every revise step adds exactly one to revision_count and writes one
\* revised text to both draft_summary and final_output: the reply of its
\* model call, or the draft as it was when the call failed; so a run that
\* reflect ends without an approval, after a revision, has final_output set
\* to its draft.
C16_ReviseStep ==
    [][/\ pc = "revise_node" =>
            LET reply == trace'[Len(trace')].replies[1]
            IN  /\ state'["revision_count"] = state["revision_count"] + 1
                /\ state'["final_output"] = state'["draft_summary"]
                /\ state'["draft_summary"] =
                        IF reply.ok THEN reply.content ELSE state["draft_summary"]
       /\ (pc = "reflect_node" /\ pc' = "END" /\ ~IsApproved(state'["critique_feedback"])) =>
            /\ state'["revision_count"] = 2
            /\ "final_output" \in DOMAIN state'
            /\ state'["final_output"] = state'["draft_summary"]
      ]_vars

\* a run stopped by the revision maximum whose second revise call failed:
\* the output is the draft of the first revision
C16_Witness ==
    /\ pc = "END"
    /\ Len(trace) = 8
    /\ trace[5].replies = <<Ok(<<"revision A">>)>>
    /\ trace[7].replies = <<Raised>>
    /\ ~IsApproved(state["critique_feedback"])
    /\ state["revision_count"] = 2
    /\ state["final_output"] = <<"revision A">>

\* C17, as claimed: each node of the graph makes at most one model call per
\* execution.
C17_OneCallPerNode == \A i \in DOMAIN trace : trace[i].calls <= 1

\* C17, amended: the nodes run one at a time, and per execution the router,
\* direct summarize, reflect and revise make at most one model call (the
\* router none for a short or massive document), the chunk node none, the
\* map-reduce executor one per chunk and one more, the refine executor one
\* per chunk, the hierarchical executor one per chunk and one per merge batch.
C17_CallsPerNode ==
    \A i \in DOMAIN trace :
        LET node == trace[i].node
            calls == trace[i].calls
            n == Len(state["chunks"])
        IN  /\ Len(trace[i].replies) = calls
            /\ node = "router_node" =>
                    calls = IF EstimatedTokens < 2000 \/ EstimatedTokens >= 50000 THEN 0 ELSE 1
            /\ node \in {"direct_summarize_node", "reflect_node", "revise_node"} => calls = 1
            /\ node = "chunk_node" => calls = 0
            /\ node = "map_reduce_node" => calls = n + 1
            /\ node = "refine_node" => calls = n
            /\ node = "hierarchical_node" => calls = SumSeq(LayerSizes(n))

\* the map-reduce executor made three model calls on two chunks
C17_Witness ==
    /\ ExecutorRan("map_reduce_node")
    /\ Len(state["chunks"]) = 2
    /\ trace[3].calls = 3
    /\ Len(trace[3].replies) = 3

----------------------------------------------------------------------------
(* Properties of the regex tools *)

\* C18: a call of replace_pattern_in_file with dry_run = TRUE leaves every
\* file as it was, whatever the path, the pattern and the replacement, and
\* whether the pattern matches or not; a call that opens the file for writing
\* has dry_run = FALSE, a pattern that matches in the file and a content that
\* the replacement changes, and it touches no other path.
C18_DryRunWritesNothing ==
    [][(ncalls' = ncalls + 1 /\ last_call'.tool = "replace_pattern_in_file") =>
            LET call == last_call'
                path == call.file_path
            IN  /\ call.dry_run => disk' = disk
                /\ DOMAIN disk' = DOMAIN disk
                /\ \A p \in DOMAIN disk : p # path => disk'[p] = disk[p]
                /\ disk' # disk =>
                    /\ ~call.dry_run
                    /\ disk[path].kind = "file"
                    /\ \E i \in DOMAIN disk[path].content :
                            disk[path].content[i] \in Compiled[call.pattern].matches
                    /\ disk'[path].content # disk[path].content
                    /\ disk'[path].written = disk[path].written + 1
                    /\ call.returned.kind = "replaced"
      ]_vars

\* a first call replaced every a by b in the file; a dry run of replacing
\* every b by a then found two matches and left the file as it was
C18_Witness ==
    /\ ncalls = 2
    /\ last_call.tool = "replace_pattern_in_file"
    /\ last_call.dry_run
    /\ last_call.file_path = "notes.txt"
    /\ last_call.pattern = "[ab]"
    /\ last_call.replacement = <<"a">>
    /\ last_call.returned = [kind |-> "dry run", count |-> 2]
    /\ disk["notes.txt"] = File(<<"b", "b">>, 1)

\* the index of the first occurrence of a value in a list
FirstIndex(found, value) ==
    CHOOSE i \in DOMAIN found : found[i] = value /\ \A j \in 1 .. i - 1 : found[j] # value

----------------------------------------------------------------------------
(* Properties of the supervisor *)

\* C20: a supervisor step that got a reply routes to END when the reply
\* names FINISH, and to the name the reply gives otherwise, member or not;
\* the next it writes to the state is that routing target, and the graph
\* runs the worker named when there is one.
C20_SupervisorRouting ==
    [][(tpc = "supervisor" /\ command' # NoCommand) =>
            /\ command'.goto = IF command'.reply = "FINISH" THEN "__end__" ELSE command'.reply
            /\ command'.update = [next |-> command'.goto]
            /\ team'["next"] = command'.goto
            /\ team'["messages"] = team["messages"]
            /\ command'.reply = "FINISH" => tpc' = "__end__"
            /\ command'.reply \in Range(members) => tpc' = command'.reply
      ]_vars

\* after a worker answered, the supervisor's model said FINISH: the run is at
\* END and next holds END, not FINISH
C20_Witness ==
    /\ tpc = "__end__"
    /\ rounds = 2
    /\ Len(team["messages"]) = 2
    /\ command.reply = "FINISH"
    /\ command.goto = "__end__"
    /\ team["next"] = "__end__"

----------------------------------------------------------------------------
(* Properties of the document tools *)

\* a line without the newline that ends it
LineText(line) ==
    IF line # <<>> /\ line[Len(line)] = "\n" THEN SubSeq(line, 1, Len(line) - 1) ELSE line

\* the texts of the lines whose numbers are not among the given ones, in order
LinesOutside(lines, numbers) ==
    LET kept == Sorted(DOMAIN lines \ numbers)
    IN  [i \in DOMAIN kept |-> LineText(lines[kept[i]])]

\* an edit_document step on a document that exists
EditStep ==
    /\ last_call.tool = "edit_document"
    /\ last_call.returned = Pending
    /\ last_call'.returned # Pending
    /\ last_call.file_name \in DOMAIN disk

\* C21: after a call of edit_document that reports success, every inserted
\* text is, in the file as saved, the line whose 1-indexed number is its
\* key, and the other lines of the saved file are the lines the file had, in
\* the order they had.
C21_InsertedAtKey ==
    [][(EditStep /\ last_call'.returned.kind = "edited") =>
            LET inserts == last_call.inserts
                before == readlines(disk[last_call.file_name].content)
                after == readlines(disk'[last_call.file_name].content)
            IN  /\ \A k \in DOMAIN inserts :
                    k \in DOMAIN after /\ LineText(after[k]) = inserts[k]
                /\ LinesOutside(after, DOMAIN inserts) = LinesOutside(before, {})
      ]_vars

\* the line numbers of a call that are out of range: below 1, or more than
\* one past the document extended by the inserts of the smaller line numbers
OutOfRange(lines, inserts) ==
    {k \in DOMAIN inserts :
        k < 1 \/ k > Len(lines) + Cardinality({j \in DOMAIN inserts : j < k}) + 1}

\* C24: a call of edit_document with a line number out of range (each one
\* tested, in ascending order, against the document as extended by the
\* smaller ones) returns the error naming the smallest such line number and
\* leaves the file system as it was, the file not even opened for writing; a
\* call with no line number out of range reports success.
C24_AllOrNothing ==
    [][EditStep =>
            LET bad == OutOfRange(readlines(disk[last_call.file_name].content),
                                  last_call.inserts)
            IN  IF bad # {}
                THEN /\ last_call'.returned =
                            DocReturned("out of range", Sorted(bad)[1], <<>>)
                     /\ disk' = disk
                ELSE /\ last_call'.returned.kind = "edited"
                     /\ disk'[last_call.file_name].written
                            = disk[last_call.file_name].written + 1
      ]_vars

\* a one-line document, a valid insert at line 1 and an insert at line 4,
\* past the two lines the document then has: the error names 4 and the file
\* is the one line it was, never written
C24_Witness ==
    /\ last_call.tool = "edit_document"
    /\ DOMAIN last_call.inserts = {1, 4}
    /\ last_call.returned = DocReturned("out of range", 4, <<>>)
    /\ disk = [p \in {"notes.txt"} |-> File(<<"x", "\n">>, 0)]

\* C26: read_document without start and end, called after write_document
\* wrote a content of two lines or more to the same file, returns the
\* content that was written.
C26_ReadReturnsWritten ==
    (/\ last_call.tool = "read_document"
     /\ last_call.start = <<>>
     /\ last_call.end = <<>>
     /\ last_call.after.tool = "write_document"
     /\ last_call.after.file_name = last_call.file_name
     /\ Len(readlines(last_call.after.content)) >= 2)
        => last_call.returned = DocReturned("text", 0, last_call.after.content)

----------------------------------------------------------------------------
(* Properties of the token estimate *)

\* C22: count_tokens returns the integer part of the text's length divided
\* by 4 (the number t with 4t <= length < 4t + 4), which is 0 for the empty
\* text; get_doc_metadata of the empty text has 0 for char_count,
\* estimated_tokens, line_count and paragraph_count, and of any other text the
\* length and that same estimate.
C22_TokenEstimate ==
    /\ (last_call.tool = "count_tokens" /\ last_call.returned # Pending) =>
            LET t == last_call.returned.value
                n == last_call.text.len
            IN  /\ 4 * t <= n
                /\ n < 4 * t + 4
                /\ n = 0 => t = 0
    /\ (last_call.tool = "get_doc_metadata" /\ last_call.returned # Pending) =>
            LET metadata == last_call.returned.value
                n == last_call.text.len
            IN  /\ DOMAIN metadata
                    = {"char_count", "estimated_tokens", "line_count", "paragraph_count"}
                /\ metadata.char_count = n
                /\ 4 * metadata.estimated_tokens <= n
                /\ n < 4 * metadata.estimated_tokens + 4
                /\ n = 0 => \A k \in DOMAIN metadata : metadata[k] = 0

\* count_tokens returned 1 for a text of 7 characters
C22_Witness ==
    /\ last_call.tool = "count_tokens"
    /\ last_call.text.len = 7
    /\ last_call.returned = [kind |-> "tokens", value |-> 1]

----------------------------------------------------------------------------
(* Properties of the team graphs *)

\* C23: a worker node whose sub-agent returned appends exactly one message,
\* named after the worker and carrying the content of the sub-agent's last
\* message, and the supervisor runs next; a team run is at END only when the
\* supervisor's latest answer was FINISH; and the number of supervisor runs
\* made so far never ends a run (a run whose answers all named members is
\* not at END).
C23_TeamLoop ==
    /\ [][(tpc \in Range(members) /\ tpc' # "ABORTED") =>
            /\ Len(team'["messages"]) = Len(team["messages"]) + 1
            /\ SubSeq(team'["messages"], 1, Len(team["messages"])) = team["messages"]
            /\ LET added == team'["messages"][Len(team'["messages"])]
               IN  /\ added.name = tpc
                   /\ added.content = subagent'.messages[Len(subagent'.messages)].content
            /\ tpc' = "supervisor"
       ]_vars
    /\ [][tpc' = "__end__" => (tpc = "supervisor" /\ command'.reply = "FINISH")]_vars

----------------------------------------------------------------------------
(* Properties of the file search *)

\* C25: a call of search_files_by_pattern returns at most max_results
\* paths, whatever max_results is (0 included) and whether the search is
\* recursive or not.
C25_AtMostMaxResults ==
    (last_call.tool = "search_files_by_pattern" /\ last_call.returned # Pending) =>
        Len(last_call.returned.files) <= last_call.max_results

----------------------------------------------------------------------------
(* Properties of the strategy dispatch and of the reflection loop *)

\* C27: in every reachable state of the summarization graph the
\* selected_strategy, once set, is MAP_REDUCE, REFINE or HIERARCHICAL, and
\* the edge taken after the chunk node leads to one of the three executors,
\* whatever the router's model answered.
C27_StrategyDispatch ==
    /\ "selected_strategy" \in DOMAIN state =>
            state["selected_strategy"] \in {"MAP_REDUCE", "REFINE", "HIERARCHICAL"}
    /\ (trace # <<>> /\ trace[Len(trace)].node = "chunk_node") =>
            pc \in {"map_reduce_node", "refine_node", "hierarchical_node"}

\* the run went through the chunk node
Chunked == \E i \in DOMAIN trace : trace[i].node = "chunk_node"

\* C28: on the chunked path, in every reachable state where final_output is
\* set it is the current draft_summary; a run that reached END has it set,
\* and what invoke returns is that draft.
C28_OutputIsCurrentDraft ==
    Chunked =>
        /\ "final_output" \in DOMAIN state =>
                /\ "draft_summary" \in DOMAIN state
                /\ state["final_output"] = state["draft_summary"]
        /\ pc = "END" => "final_output" \in DOMAIN state
        /\ pc = "RETURNED" => result = <<state["draft_summary"]>>

\* a chunked run whose first reflection asked for changes, whose revision
\* replaced the draft, and whose second reflection approved: the revised draft
\* was returned
C28_Witness ==
    /\ Chunked
    /\ pc = "RETURNED"
    /\ Len(trace) = 6
    /\ trace[4].node = "reflect_node"
    /\ trace[5].node = "revise_node"
    /\ trace[5].replies = <<Ok(<<"revision A">>)>>
    /\ trace[6].replies = <<Ok(APPROVED)>>
    /\ state["revision_count"] = 1
    /\ result = <<(<<"revision A">>)>>

\* C29: a reflect step whose model call failed writes APPROVED to
\* critique_feedback and the current draft to final_output, changes no other
\* key, and leads to END, whatever the revision count; no node runs after it.
C29_ReflectFailureApproves ==
    /\ [][(pc = "reflect_node" /\ ~trace'[Len(trace')].replies[1].ok) =>
            /\ state' = Merge(state, [critique_feedback |-> APPROVED,
                                      final_output |-> state["draft_summary"]])
            /\ pc' = "END"
       ]_vars
    /\ [][(trace # <<>> /\ trace[Len(trace)].node = "reflect_node"
            /\ trace[Len(trace)].failed = 1) =>
                /\ trace' = trace
                /\ state' = state
                /\ pc' = "RETURNED"
       ]_vars

\* after one revision the reflector's model failed: the run is at END,
\* approved, with the revised draft as output and one revision counted
C29_Witness ==
    /\ pc = "END"
    /\ trace[Len(trace)].node = "reflect_node"
    /\ trace[Len(trace)].replies = <<Raised>>
    /\ state["revision_count"] = 1
    /\ state["critique_feedback"] = APPROVED
    /\ state["final_output"] = <<"revision A">>
    /\ state["draft_summary"] = <<"revision A">>

----------------------------------------------------------------------------
(* Properties of the chunker *)

\* the overlap asked for: the custom one, or the strategy's when the custom
\* one is None or 0
AskedOverlap ==
    IF last_call.custom_overlap # 0 THEN last_call.custom_overlap
    ELSE IF last_call.strategy = "MAP_REDUCE" THEN 100
    ELSE IF last_call.strategy = "REFINE" THEN 400
    ELSE 50

\* C30: for every strategy, every positive custom chunk size and every
\* custom overlap of 0 or more, the splitter is given the custom chunk size
\* and an overlap strictly below it: the overlap asked for when that is below
\* the chunk size, the chunk size divided by 4 (rounded down) otherwise.
C30_OverlapBelowSize ==
    (/\ last_call.tool = "chunk"
     /\ last_call.returned # Pending
     /\ last_call.custom_chunk_size > 0) =>
        LET given == last_call.returned
        IN  /\ given.chunk_size = last_call.custom_chunk_size
            /\ 0 <= given.chunk_overlap
            /\ given.chunk_overlap < given.chunk_size
            /\ AskedOverlap < given.chunk_size => given.chunk_overlap = AskedOverlap
            /\ AskedOverlap >= given.chunk_size =>
                    /\ 4 * given.chunk_overlap <= given.chunk_size
                    /\ given.chunk_size < 4 * given.chunk_overlap + 4

\* REFINE with a custom chunk size of 100 and no custom overlap: the
\* strategy's overlap of 400 is replaced by 25
C30_Witness ==
    /\ last_call.tool = "chunk"
    /\ last_call.strategy = "REFINE"
    /\ last_call.custom_chunk_size = 100
    /\ last_call.custom_overlap = 0
    /\ last_call.returned = [kind |-> "splitter", chunk_size |-> 100, chunk_overlap |-> 25]

====
